---- MODULE Spec2Model ----
(***************************************************************************)
(* Model of protocol_demo.py: the G-Set of events and its projection, the  *)
(* sync server's challenge-response authentication, the three-phase sync   *)
(* client, LAN peer discovery, and the threads that share the G-Set.       *)
(***************************************************************************)
EXTENDS Integers, Sequences, FiniteSets, TLC

VARIABLES
    gset,               \* GSet.events of each device: the events in dict insertion order
    notes,              \* the view last returned by build_notes_from_events on each device
    now,                \* time.time()
    active_challenges,  \* SyncHandler.active_challenges of each device: nonce -> timestamp
    nextChallenge,      \* the next value os.urandom(32) returns: never a value drawn before
    req,                \* the request the sync server is handling, NoRequest between requests
    resp,               \* the response to req
    acceptCount,        \* how many requests presenting each challenge _verify_auth has accepted
    seen,               \* what held of req's challenge when the handler began
    peers,              \* PeerDiscovery.peers of device A: deviceId -> peer record
    running,            \* PeerDiscovery.running
    sockOpen,           \* PeerDiscovery.sock is bound and not closed
    bpc,                \* where _broadcast_loop stands
    bscan,              \* peers as _cleanup_stale_peers found it when its scan began
    bstale,             \* the stale device ids _cleanup_stale_peers has yet to pop
    sentAt,             \* the clock when _broadcast_loop last called sendto
    wakeAt,             \* when time.sleep(BROADCAST_INTERVAL) returns
    lpc,                \* where _listen_loop stands
    lmsg,               \* the datagram _listen_loop received last
    lwasNew,            \* was_new of _listen_loop
    discovered,         \* "Discovered peer" notifications printed, by device id
    lost,               \* "Lost peer" notifications printed, by device id
    run,                \* sync_with_peer on each device: its position and its locals
    created,            \* the device each event of EventTable was created on
    syncLog,            \* the sync_with_peer calls that have returned, in order
    lateCreate,         \* an event was created after the first sync_with_peer began
    lostCount,          \* requests and responses the network has lost
    presented,          \* challenges the sync clients have sent in an X-Auth-Response
    thr,                \* the GSet method each thread of a device is in, and its locals
    g0,                 \* the shared GSet when the threads' current calls began
    last,               \* the last call of a GSet method: what it got and returned
    keyed               \* GSet.events of that device as the dict it is: key -> event

projVars == <<notes>>
authVars == <<now, active_challenges, nextChallenge, req, resp, acceptCount, seen>>
discVars == <<peers, running, sockOpen, bpc, bscan, bstale, sentAt, wakeAt,
              lpc, lmsg, lwasNew, discovered, lost>>
syncVars == <<run, created, syncLog, lateCreate, lostCount, presented>>
concVars == <<thr, g0>>
setVars == <<last, keyed>>
vars == <<gset, projVars, authVars, discVars, syncVars, concVars, setVars>>

----------------------------------------------------------------------------
(* Devices, keys and events *)

Devices == {"A", "B", "C"}

\* Index of the last event of EventTable the projection specification draws from.
MaxEvents == 5

\* The events create_event can return.  The index stands for the uuid4 and
\* the clock reading that create_event draws; hash is the 16-hex-digit sha256
\* prefix read as a number, so that < on it is the lexicographic order of
\* the hex strings.
EventTable ==
    << [id |-> "u1", type |-> "CREATE", noteId |-> "N1", content |-> "a",
        timestamp |-> 1000, hash |-> 3],
       [id |-> "u2", type |-> "UPDATE", noteId |-> "N1", content |-> "b",
        timestamp |-> 1001, hash |-> 1],
       [id |-> "u3", type |-> "UPDATE", noteId |-> "N1", content |-> "c",
        timestamp |-> 1002, hash |-> 4],
       [id |-> "u4", type |-> "UPDATE", noteId |-> "N1", content |-> "d",
        timestamp |-> 1002, hash |-> 2],
       [id |-> "u5", type |-> "DELETE", noteId |-> "N1", content |-> "",
        timestamp |-> 1001, hash |-> 5],
       [id |-> "u6", type |-> "CREATE", noteId |-> "N2", content |-> "e",
        timestamp |-> 1000, hash |-> 6] >>

\* An event that differs from create_event(1) and carries its hash: a
\* collision of the 64-bit prefix, or an event a peer pushed under that hash
\* (no receiver recomputes the hash of an event).
Collider ==
    [id |-> "u7", type |-> "UPDATE", noteId |-> "N1", content |-> "z",
     timestamp |-> 1003, hash |-> 3]

create_event(i) == EventTable[i]

Range(s) == {s[i] : i \in 1..Len(s)}

\* All orders in which a Python set can be iterated.
Orders(S) ==
    {s \in [1..Cardinality(S) -> S] : \A i, j \in 1..Cardinality(S) : s[i] = s[j] => i = j}

----------------------------------------------------------------------------
(* CryptoIdentity *)

\* Every device of the user loads the same keyfile; device X has another.
SignKeys == {"skU", "skX"}
EncryptKeys == {"ekU", "ekX"}

\* sha256(public key)[:16]
get_user_id_from_public_key(sign_public_key) ==
    IF sign_public_key = "skU" THEN "user-U" ELSE "user-X"

Identity(d) ==
    IF d \in Devices
    THEN [sign |-> "skU", encrypt |-> "ekU", user_id |-> get_user_id_from_public_key("skU")]
    ELSE [sign |-> "skX", encrypt |-> "ekX", user_id |-> get_user_id_from_public_key("skX")]

\* An Ed25519 signature: made with a key over a message.
sign_message(sign_key, message) == [signer |-> sign_key, message |-> message]

\* False on a wrong signature and on anything that does not decode.
verify_message(sign_public_key, message, signature) ==
    /\ sign_public_key \in SignKeys
    /\ signature \in [signer : SignKeys, message : {message}]
    /\ signature.signer = sign_public_key

\* X25519 + HKDF: the same key from either side's private and the other's public key.
derive_shared_key(encrypt_key, peer_encrypt_public_key) ==
    {encrypt_key, peer_encrypt_public_key}

\* ChaCha20-Poly1305: decrypt raises InvalidTag under another key.
encrypt_message(plaintext, shared_key) == [key |-> shared_key, plaintext |-> plaintext]

decrypt_ok(encrypted_data, shared_key) == encrypted_data.key = shared_key

decrypt_message(encrypted_data, shared_key) == encrypted_data.plaintext

----------------------------------------------------------------------------
(* GSet *)

get_hashes(g) == {g[i].hash : i \in 1..Len(g)}

\* The hashes of a set of events.
get_hashes_of(S) == {e.hash : e \in S}

\* add that lets the newcomer take the place of the event stored under its hash.
add_overwrites(g, event) ==
    IF event.hash \in get_hashes(g)
    THEN [i \in 1..Len(g) |-> IF g[i].hash = event.hash THEN event ELSE g[i]]
    ELSE Append(g, event)

\* add that stores whatever it is given.
add_always_stores(g, event) == Append(g, event)

\* merge that stops after the first event.
merge_first_only(g, other_events) ==
    IF other_events = <<>> THEN g
    ELSE IF Head(other_events).hash \notin get_hashes(g) THEN Append(g, Head(other_events))
    ELSE g

Lookup(g, h) == CHOOSE e \in Range(g) : e.hash = h

add_returns(g, event) == event.hash \notin get_hashes(g)

add(g, event) == IF event.hash \notin get_hashes(g) THEN Append(g, event) ELSE g

RECURSIVE get_events(_, _)
get_events(g, hashes) ==
    IF hashes = <<>> THEN <<>>
    ELSE (IF Head(hashes) \in get_hashes(g) THEN <<Lookup(g, Head(hashes))>> ELSE <<>>)
         \o get_events(g, Tail(hashes))

RECURSIVE merge(_, _)
merge(g, other_events) ==
    IF other_events = <<>> THEN g
    ELSE merge(add(g, Head(other_events)), Tail(other_events))

RECURSIVE merge_returns(_, _)
merge_returns(g, other_events) ==
    IF other_events = <<>> THEN 0
    ELSE (IF add_returns(g, Head(other_events)) THEN 1 ELSE 0)
         + merge_returns(add(g, Head(other_events)), Tail(other_events))

\* self.events[event_hash] = event: a key already there keeps its place.
dict_store(g, event) ==
    IF event.hash \in get_hashes(g)
    THEN [i \in 1..Len(g) |-> IF g[i].hash = event.hash THEN event ELSE g[i]]
    ELSE Append(g, event)

\* GSet on the dict itself.  add that stores the event under its timestamp.
keyed_add_by_timestamp(dict, event) ==
    IF event.hash \in DOMAIN dict THEN dict
    ELSE [k \in DOMAIN dict \cup {event.timestamp} |->
            IF k = event.timestamp THEN event ELSE dict[k]]

\* add: self.events[event_hash] = event if event_hash is no key yet.
keyed_add(dict, event) ==
    IF event.hash \in DOMAIN dict THEN dict
    ELSE [k \in DOMAIN dict \cup {event.hash} |-> IF k = event.hash THEN event ELSE dict[k]]

RECURSIVE keyed_merge(_, _)
keyed_merge(dict, other_events) ==
    IF other_events = <<>> THEN dict
    ELSE keyed_merge(keyed_add(dict, Head(other_events)), Tail(other_events))

\* get_hashes: set(self.events.keys())
keyed_get_hashes(dict) == DOMAIN dict

\* get_events: [self.events[h] for h in hashes if h in self.events]
RECURSIVE keyed_get_events(_, _)
keyed_get_events(dict, hashes) ==
    IF hashes = <<>> THEN <<>>
    ELSE (IF Head(hashes) \in DOMAIN dict THEN <<dict[Head(hashes)]>> ELSE <<>>)
         \o keyed_get_events(dict, Tail(hashes))

\* No GSet method has been called yet.
NoCall ==
    [op |-> "none", arg |-> <<>>, before |-> <<>>, result |-> [none |-> TRUE],
     warned |-> FALSE]

\* What a call of a GSet method leaves to see: its argument, the G-Set it
\* found, its return value, and whether it printed, logged or raised
\* anything (no statement of GSet does).
CallRecord(op, arg, before, value) ==
    [op |-> op, arg |-> arg, before |-> before, result |-> [value |-> value],
     warned |-> FALSE]

\* The two threads of a device that share its GSet: run_server's thread
\* serves the handlers, the main thread runs the commands.
Threads == {"server", "main"}

\* A thread outside every GSet method.
IdleThread ==
    [pc |-> "idle", op |-> "none", arg |-> <<>>, todo |-> <<>>, absent |-> FALSE,
     added |-> 0, out |-> <<>>, result |-> [none |-> TRUE], after |-> {}]

----------------------------------------------------------------------------
(* build_notes_from_events *)

\* sorted(..., key=timestamp) is stable: an element goes after every element
\* already placed whose timestamp is not greater.
RECURSIVE InsertByTimestamp(_, _)
InsertByTimestamp(s, e) ==
    IF s = <<>> THEN <<e>>
    ELSE IF s[Len(s)].timestamp <= e.timestamp THEN Append(s, e)
    ELSE Append(InsertByTimestamp(SubSeq(s, 1, Len(s) - 1), e), s[Len(s)])

RECURSIVE SortedByTimestamp(_)
SortedByTimestamp(s) ==
    IF s = <<>> THEN <<>>
    ELSE InsertByTimestamp(SortedByTimestamp(SubSeq(s, 1, Len(s) - 1)), s[Len(s)])

\* The loop body without its DELETE branch.
ApplyEvent_ignores_delete(view, event) ==
    IF event.type \in {"CREATE", "UPDATE"}
    THEN [n \in DOMAIN view \cup {event.noteId} |->
            IF n = event.noteId
            THEN [id |-> event.noteId, content |-> event.content,
                  timestamp |-> event.timestamp]
            ELSE view[n]]
    ELSE view

\* The body of the loop over the sorted events.
ApplyEvent(view, event) ==
    IF event.type \in {"CREATE", "UPDATE"}
    THEN [n \in DOMAIN view \cup {event.noteId} |->
            IF n = event.noteId
            THEN [id |-> event.noteId, content |-> event.content,
                  timestamp |-> event.timestamp]
            ELSE view[n]]
    ELSE IF event.type = "DELETE"
    THEN [n \in DOMAIN view \ {event.noteId} |-> view[n]]
    ELSE view

RECURSIVE FoldEvents(_, _)
FoldEvents(view, events) ==
    IF events = <<>> THEN view
    ELSE FoldEvents(ApplyEvent(view, Head(events)), Tail(events))

\* build_notes_from_events without the sort: events apply in insertion order.
build_notes_unsorted(g) == FoldEvents(<<>>, g)

build_notes_from_events(g) == FoldEvents(<<>>, SortedByTimestamp(g))

----------------------------------------------------------------------------
(* PeerDiscovery of device A *)

BROADCAST_INTERVAL == 5
PEER_TIMEOUT == 15

LocalDeviceId == "dA"
RemoteDeviceIds == {"dB", "dX"}

NoDatagram == [kind |-> "none"]
MalformedDatagram == [kind |-> "malformed"]

\* The payload _broadcast_loop builds, for any device id and identity.  Its
\* timestamp is left out: _listen_loop never reads it.
Payload(device_id, sign_key) ==
    [deviceId |-> device_id, deviceName |-> device_id, httpPort |-> 8001,
     signPublicKey |-> sign_key,
     encryptPublicKey |-> IF sign_key = "skU" THEN "ekU" ELSE "ekX"]

Beacon(device_id, sign_key, signer) ==
    [kind |-> "beacon", payload |-> Payload(device_id, sign_key),
     signature |-> sign_message(signer, Payload(device_id, sign_key))]

\* What recvfrom can return: beacons of any device id signed by either
\* identity, a beacon that names the user's key and is signed with another
\* one, and bytes that are no beacon.
Datagrams ==
    {MalformedDatagram, Beacon("dB", "skU", "skX")} \cup
    {Beacon(d, k, k) : d \in {LocalDeviceId} \cup RemoteDeviceIds, k \in SignKeys}

\* _listen_loop without the check of the device id.
listen_accepts_own_echo(device_id, user_id, message) ==
    /\ message # MalformedDatagram
    /\ verify_message(message.payload.signPublicKey, message.payload, message.signature)
    /\ get_user_id_from_public_key(message.payload.signPublicKey) = user_id

\* _listen_loop without the check of the peer's user id.
listen_accepts_any_user(device_id, user_id, message) ==
    /\ message # MalformedDatagram
    /\ verify_message(message.payload.signPublicKey, message.payload, message.signature)
    /\ message.payload.deviceId # device_id

\* _listen_loop: whether a datagram reaches the insertion into peers.
listen_accepts(device_id, user_id, message) ==
    /\ message # MalformedDatagram
    /\ verify_message(message.payload.signPublicKey, message.payload, message.signature)
    /\ message.payload.deviceId # device_id
    /\ get_user_id_from_public_key(message.payload.signPublicKey) = user_id

\* The peer record _listen_loop stores.
PeerRecord(payload, t) ==
    [deviceId |-> payload.deviceId, deviceName |-> payload.deviceName,
     httpPort |-> payload.httpPort, signPublicKey |-> payload.signPublicKey,
     encryptPublicKey |-> payload.encryptPublicKey, lastSeen |-> t]

IsStale(t, last_seen) == t - last_seen > PEER_TIMEOUT

\* The stale lists the comprehension of _cleanup_stale_peers can build when
\* it began on `before` and ends on `after` (same keys): of a record that
\* _listen_loop replaced meanwhile it has read either lastSeen.
StaleChoices(before, after, t) ==
    {S \in SUBSET DOMAIN before :
        \A d \in DOMAIN before :
            /\ d \in S => (IsStale(t, before[d].lastSeen) \/ IsStale(t, after[d].lastSeen))
            /\ d \notin S => (~IsStale(t, before[d].lastSeen) \/ ~IsStale(t, after[d].lastSeen))}

----------------------------------------------------------------------------
(* SyncHandler *)

ChallengeTTL == 30

NoRequest == [method |-> "none"]
NoResponse == [status |-> 0, body |-> [none |-> TRUE]]

\* A header that is absent, and one that does not decode.
NoHeader == [kind |-> "none"]
MalformedHeader == [kind |-> "malformed"]

\* A body that is no JSON, a plaintext that is no {events: [...]}, and a list
\* element that is no event.
MalformedBody == [kind |-> "malformed"]
Garbage == [kind |-> "garbage"]
BadItem == [kind |-> "bad"]

Unauthorized == [error |-> "Unauthorized"]
NotFound == [error |-> "Not found"]
DecryptionFailed == [error |-> "Decryption failed"]
NoBody == [none |-> TRUE]

\* age: the age of the presented challenge, -1 when it is not in the table;
\* accepted: how often it had been accepted.
NothingSeen == [age |-> -1, accepted |-> 0]

\* Paths for which parsed.path.startswith('/sync/') holds, /sync/challenge aside.
SyncPaths == {"/sync/inventory", "/sync/pull", "/sync/push", "/sync/x"}

\* The header is there and base64-decodes to a JSON object with the three fields.
AuthDecodes(auth_header) == auth_header \notin {NoHeader, MalformedHeader}

ChallengeLive(table, t, challenge) ==
    /\ challenge \in DOMAIN table
    /\ ~(t - table[challenge] > ChallengeTTL)

Without(table, gone) == [c \in DOMAIN table \ gone |-> table[c]]

\* _verify_auth without the check that the peer is the same user.
verify_auth_any_user(table, t, user_id, auth_header, peer_encrypt_key) ==
    /\ auth_header # NoHeader
    /\ peer_encrypt_key # "None"
    /\ AuthDecodes(auth_header)
    /\ ChallengeLive(table, t, auth_header.challenge)
    /\ verify_message(auth_header.signPublicKey,
                      [challenge |-> auth_header.challenge], auth_header.signature)

\* _verify_auth: its return value.
verify_auth(table, t, user_id, auth_header, peer_encrypt_key) ==
    /\ auth_header # NoHeader
    /\ peer_encrypt_key # "None"
    /\ AuthDecodes(auth_header)
    /\ ChallengeLive(table, t, auth_header.challenge)
    /\ verify_message(auth_header.signPublicKey,
                      [challenge |-> auth_header.challenge], auth_header.signature)
    /\ get_user_id_from_public_key(auth_header.signPublicKey) = user_id

\* _verify_auth that leaves an accepted challenge in the table.
verify_auth_table_reusable(table, t, user_id, auth_header, peer_encrypt_key) ==
    IF auth_header = NoHeader \/ peer_encrypt_key = "None" \/ ~AuthDecodes(auth_header)
    THEN table
    ELSE IF auth_header.challenge \notin DOMAIN table
    THEN table
    ELSE IF t - table[auth_header.challenge] > ChallengeTTL
    THEN Without(table, {auth_header.challenge})
    ELSE table

\* _verify_auth that leaves an expired challenge in the table.
verify_auth_table_keeps_expired(table, t, user_id, auth_header, peer_encrypt_key) ==
    IF auth_header = NoHeader \/ peer_encrypt_key = "None" \/ ~AuthDecodes(auth_header)
    THEN table
    ELSE IF auth_header.challenge \notin DOMAIN table
    THEN table
    ELSE IF t - table[auth_header.challenge] > ChallengeTTL
    THEN table
    ELSE IF ~verify_message(auth_header.signPublicKey,
                            [challenge |-> auth_header.challenge], auth_header.signature)
    THEN table
    ELSE IF get_user_id_from_public_key(auth_header.signPublicKey) # user_id
    THEN table
    ELSE Without(table, {auth_header.challenge})

\* _verify_auth that deletes a live challenge also when it rejects the
\* signature or the user.
verify_auth_table_burns_on_failure(table, t, user_id, auth_header, peer_encrypt_key) ==
    IF auth_header = NoHeader \/ peer_encrypt_key = "None" \/ ~AuthDecodes(auth_header)
    THEN table
    ELSE IF auth_header.challenge \notin DOMAIN table
    THEN table
    ELSE Without(table, {auth_header.challenge})

\* _verify_auth: active_challenges when it returns.
verify_auth_table(table, t, user_id, auth_header, peer_encrypt_key) ==
    IF auth_header = NoHeader \/ peer_encrypt_key = "None" \/ ~AuthDecodes(auth_header)
    THEN table
    ELSE IF auth_header.challenge \notin DOMAIN table
    THEN table
    ELSE IF t - table[auth_header.challenge] > ChallengeTTL
    THEN Without(table, {auth_header.challenge})
    ELSE IF ~verify_message(auth_header.signPublicKey,
                            [challenge |-> auth_header.challenge], auth_header.signature)
    THEN table
    ELSE IF get_user_id_from_public_key(auth_header.signPublicKey) # user_id
    THEN table
    ELSE Without(table, {auth_header.challenge})

\* do_GET, /sync/challenge, without the cleaning of old challenges.
challenge_table_never_cleans(table, t, challenge) ==
    [c \in DOMAIN table \cup {challenge} |-> IF c = challenge THEN t ELSE table[c]]

\* do_GET, /sync/challenge: the new challenge is stored, then the old ones dropped.
challenge_table(table, t, challenge) ==
    LET stored == [c \in DOMAIN table \cup {challenge} |->
                     IF c = challenge THEN t ELSE table[c]]
        expired == {c \in DOMAIN stored : t - stored[c] > ChallengeTTL}
    IN Without(stored, expired)

\* The events of a decrypted push up to the first element that is no event:
\* event['hash'] raises there, after the events before it were added.
RECURSIVE EventsBeforeBad(_)
EventsBeforeBad(items) ==
    IF items = <<>> \/ Head(items) = BadItem THEN <<>>
    ELSE <<Head(items)>> \o EventsBeforeBad(Tail(items))

\* A handler's outcome: the challenge table, the G-Set, and the response
\* (status 0: the handler raised and the connection closed with no response).
Outcome(table, g, status, body) ==
    [table |-> table, gset |-> g, status |-> status, body |-> body]

do_GET(d, r, table, g, t, fresh) ==
    IF r.path = "/sync/challenge"
    THEN Outcome(challenge_table(table, t, fresh), g, 200,
                 [challenge |-> fresh, serverEncryptKey |-> Identity(d).encrypt])
    ELSE IF r.path \in SyncPaths
    THEN LET ok == verify_auth(table, t, Identity(d).user_id, r.auth, r.encryptKey)
             table2 == verify_auth_table(table, t, Identity(d).user_id, r.auth, r.encryptKey)
             shared_key == derive_shared_key(Identity(d).encrypt, r.encryptKey)
         IN IF ~ok THEN Outcome(table2, g, 401, Unauthorized)
            ELSE IF r.encryptKey \notin EncryptKeys THEN Outcome(table2, g, 0, NoBody)
            ELSE IF r.path = "/sync/inventory"
            THEN Outcome(table2, g, 200,
                         encrypt_message([hashes |-> get_hashes(g)], shared_key))
            ELSE IF r.path = "/sync/pull"
            THEN Outcome(table2, g, 200,
                         encrypt_message([events |-> get_events(g, r.hashes)], shared_key))
            ELSE Outcome(table2, g, 404, NotFound)
    ELSE Outcome(table, g, 404, NotFound)

\* do_POST that tells the sender of an expired challenge that it expired.
do_POST_tells_expiry(d, r, table, g, t) ==
    LET ok == verify_auth(table, t, Identity(d).user_id, r.auth, r.encryptKey)
        table2 == verify_auth_table(table, t, Identity(d).user_id, r.auth, r.encryptKey)
        shared_key == derive_shared_key(Identity(d).encrypt, r.encryptKey)
        expired == /\ r.encryptKey # "None"
                   /\ AuthDecodes(r.auth)
                   /\ r.auth.challenge \in DOMAIN table
                   /\ t - table[r.auth.challenge] > ChallengeTTL
    IN IF ~ok THEN Outcome(table2, g, 401,
                           IF expired THEN [error |-> "Challenge expired"] ELSE Unauthorized)
       ELSE IF r.encryptKey \notin EncryptKeys THEN Outcome(table2, g, 0, NoBody)
       ELSE IF r.path = "/sync/push"
       THEN IF r.body = MalformedBody THEN Outcome(table2, g, 0, NoBody)
            ELSE IF ~decrypt_ok(r.body, shared_key)
            THEN Outcome(table2, g, 400, DecryptionFailed)
            ELSE LET data == decrypt_message(r.body, shared_key) IN
                 IF data = Garbage THEN Outcome(table2, g, 400, DecryptionFailed)
                 ELSE LET good == EventsBeforeBad(data.events) IN
                      IF Len(good) < Len(data.events)
                      THEN Outcome(table2, merge(g, good), 400, DecryptionFailed)
                      ELSE Outcome(table2, merge(g, good), 200,
                                   encrypt_message([added |-> merge_returns(g, good)],
                                                   shared_key))
       ELSE Outcome(table2, g, 404, NotFound)

do_POST(d, r, table, g, t) ==
    LET ok == verify_auth(table, t, Identity(d).user_id, r.auth, r.encryptKey)
        table2 == verify_auth_table(table, t, Identity(d).user_id, r.auth, r.encryptKey)
        shared_key == derive_shared_key(Identity(d).encrypt, r.encryptKey)
    IN IF ~ok THEN Outcome(table2, g, 401, Unauthorized)
       ELSE IF r.encryptKey \notin EncryptKeys THEN Outcome(table2, g, 0, NoBody)
       ELSE IF r.path = "/sync/push"
       THEN IF r.body = MalformedBody THEN Outcome(table2, g, 0, NoBody)
            ELSE IF ~decrypt_ok(r.body, shared_key)
            THEN Outcome(table2, g, 400, DecryptionFailed)
            ELSE LET data == decrypt_message(r.body, shared_key) IN
                 IF data = Garbage THEN Outcome(table2, g, 400, DecryptionFailed)
                 ELSE LET good == EventsBeforeBad(data.events) IN
                      IF Len(good) < Len(data.events)
                      THEN Outcome(table2, merge(g, good), 400, DecryptionFailed)
                      ELSE Outcome(table2, merge(g, good), 200,
                                   encrypt_message([added |-> merge_returns(g, good)],
                                                   shared_key))
       ELSE Outcome(table2, g, 404, NotFound)

handle(d, r, table, g, t, fresh) ==
    IF r.method = "GET" THEN do_GET(d, r, table, g, t, fresh) ELSE do_POST(d, r, table, g, t)

\* Whether the handler runs _verify_auth on the request.
Authenticates(r) ==
    \/ r.method = "POST"
    \/ r.method = "GET" /\ r.path \in SyncPaths

----------------------------------------------------------------------------
(* sync_with_peer *)

\* sync_with_peer before it is called: no position, no locals.  Beside the
\* locals: the G-Sets of both ends when the run began, whether anything
\* else has changed them since, where the run failed, the events the pull
\* merged, and the peer's G-Set before and after the push request.
IdleRun ==
    [pc |-> "idle", peer |-> "none", challenge |-> 0, server_key |-> "none",
     peer_hashes |-> {}, local_hashes |-> {}, we_need |-> {}, they_need |-> {},
     events |-> <<>>, result |-> FALSE, disturbed |-> FALSE,
     startLocal |-> {}, startPeer |-> {},
     failedAt |-> "none", pulled |-> {}, peerBefore |-> <<>>, peerAfter |-> <<>>]

\* authenticated_request, step 2: the X-Auth-Response header for a challenge.
ClientAuth(a, challenge) ==
    [kind |-> "auth", challenge |-> challenge,
     signature |-> sign_message(Identity(a).sign, [challenge |-> challenge]),
     signPublicKey |-> Identity(a).sign]

ChallengeRequest == [method |-> "GET", path |-> "/sync/challenge", auth |-> NoHeader,
                     encryptKey |-> "None", hashes |-> <<>>, body |-> MalformedBody]

\* The request authenticated_request sends for an endpoint.
ClientRequest(a, method, path, challenge, hashes, body) ==
    [method |-> method, path |-> path, auth |-> ClientAuth(a, challenge),
     encryptKey |-> Identity(a).encrypt, hashes |-> hashes, body |-> body]

\* urlopen returns a body the client can decrypt: status 200 under the
\* shared key.  Anything else raises inside the try block.
ClientReads(a, server_key, out) ==
    /\ out.status = 200
    /\ "key" \in DOMAIN out.body
    /\ decrypt_ok(out.body, derive_shared_key(Identity(a).encrypt, server_key))

\* sync_with_peer that sends the pull request whatever we_need is.
AfterDiff_always_pulls(we_need, they_need) == "pull_challenge"

\* sync_with_peer without step 2.
AfterDiff_never_pulls(we_need, they_need) ==
    IF they_need # {} THEN "push_read" ELSE "done"

\* Where sync_with_peer goes after the inventory, and after the pull.
AfterDiff(we_need, they_need) ==
    IF we_need # {} THEN "pull_challenge"
    ELSE IF they_need # {} THEN "push_read" ELSE "done"

\* sync_with_peer that sends the push request whatever they_need is.
AfterPull_always_pushes(they_need) == "push_read"

\* sync_with_peer without step 3.
AfterPull_never_pushes(they_need) == "done"

AfterPull(they_need) == IF they_need # {} THEN "push_read" ELSE "done"

----------------------------------------------------------------------------
(* The state after construction: main has built the GSet, run_server has   *)
(* set the handler's class attributes, nobody has asked anything yet.      *)

Init ==
    /\ gset = [d \in Devices |-> <<>>]
    /\ notes = [d \in Devices |-> <<>>]
    /\ now = 0
    /\ active_challenges = [d \in Devices |-> <<>>]
    /\ nextChallenge = 1
    /\ req = NoRequest
    /\ resp = NoResponse
    /\ acceptCount = <<>>
    /\ seen = NothingSeen
    /\ peers = <<>>
    /\ running = FALSE
    /\ sockOpen = FALSE
    /\ bpc = "unstarted"
    /\ bscan = <<>>
    /\ bstale = {}
    /\ sentAt = 0
    /\ wakeAt = 0
    /\ lpc = "unstarted"
    /\ lmsg = NoDatagram
    /\ lwasNew = FALSE
    /\ discovered = [d \in RemoteDeviceIds |-> 0]
    /\ lost = [d \in RemoteDeviceIds |-> 0]
    /\ run = [d \in Devices |-> IdleRun]
    /\ created = <<>>
    /\ syncLog = <<>>
    /\ lateCreate = FALSE
    /\ lostCount = 0
    /\ presented = {}
    /\ thr = [t \in Threads |-> IdleThread]
    /\ g0 = <<>>
    /\ last = NoCall
    /\ keyed = <<>>

----------------------------------------------------------------------------
(* The G-Set and its projection on their own: events are added and merged  *)
(* in any order into the G-Sets of two devices, and listed.                *)

ProjDevices == {"A", "B"}
\* Two updates with one timestamp, and a delete before them.
ProjEvents == {create_event(i) : i \in 3..MaxEvents}

\* main, 'create': gset.add(create_event(...))
GAdd(d, e) ==
    /\ gset' = [gset EXCEPT ![d] = add(gset[d], e)]
    /\ UNCHANGED <<projVars, authVars, discVars, syncVars, concVars, setVars>>

\* gset.merge(events) with a batch of events
GMerge(d, batch) ==
    /\ gset' = [gset EXCEPT ![d] = merge(gset[d], batch)]
    /\ UNCHANGED <<projVars, authVars, discVars, syncVars, concVars, setVars>>

\* main, 'list': notes = build_notes_from_events(gset)
GList(d) ==
    /\ notes' = [notes EXCEPT ![d] = build_notes_from_events(gset[d])]
    /\ UNCHANGED <<gset, authVars, discVars, syncVars, concVars, setVars>>

NextProj ==
    \/ \E d \in ProjDevices, e \in ProjEvents : GAdd(d, e)
    \/ \E d \in ProjDevices, S \in SUBSET ProjEvents :
         /\ Cardinality(S) = 2
         /\ \E batch \in Orders(S) : GMerge(d, batch)
    \/ \E d \in ProjDevices : GList(d)

SpecProj == Init /\ [][NextProj]_vars

----------------------------------------------------------------------------
(* The projection of one device over a create, updates and a delete of one *)
(* subject, added in any order and listed.                                 *)

MaxViewEvents == 5
ViewDevice == "A"
ViewEvents == {create_event(i) : i \in 1..MaxViewEvents}

NextView ==
    \/ \E e \in ViewEvents : GAdd(ViewDevice, e)
    \/ GList(ViewDevice)

SpecView == Init /\ [][NextView]_vars

----------------------------------------------------------------------------
(* The sync server of device A, one request at a time (HTTPServer handles  *)
(* requests in one thread), asked anything by anybody.                     *)

AuthServer == "A"

\* Challenges the server may mint, and the last reading of the clock.
MaxChallenges == 2
MaxTime == 31
TickSteps == {15, 16}

Count(c) == IF c \in DOMAIN acceptCount THEN acceptCount[c] ELSE 0

\* A decodable header for challenge c: signed with signer's key over the
\* challenge m, and naming key as its signPublicKey.
AuthHeader(c, signer, key, m) ==
    [kind |-> "auth", challenge |-> c, signature |-> sign_message(signer, [challenge |-> m]),
     signPublicKey |-> key]

\* No header, an undecodable one, and for every challenge: the user's own, another
\* user's, one signed with a key that is not the named one, one signed over
\* another challenge.
AuthHeaders ==
    {NoHeader, MalformedHeader} \cup
    UNION {{AuthHeader(c, "skU", "skU", c), AuthHeader(c, "skX", "skX", c),
            AuthHeader(c, "skX", "skU", c), AuthHeader(c, "skU", "skU", 0)} :
           c \in 0..MaxChallenges}

EncryptKeyHeaders == {"None", "Malformed"} \cup EncryptKeys

PullQueries == {<<create_event(2).hash, create_event(1).hash>>}

PushBodies ==
    {MalformedBody,
     encrypt_message([events |-> <<create_event(1)>>], derive_shared_key("ekX", "ekX")),
     encrypt_message(Garbage, derive_shared_key("ekU", "ekU")),
     encrypt_message([events |-> <<create_event(1)>>], derive_shared_key("ekU", "ekU")),
     encrypt_message([events |-> <<create_event(1), BadItem>>], derive_shared_key("ekU", "ekU"))}

Request(method, path, auth, encryptKey, hashes, body) ==
    [method |-> method, path |-> path, auth |-> auth, encryptKey |-> encryptKey,
     hashes |-> hashes, body |-> body]

Requests ==
    {Request("GET", p, NoHeader, "None", <<>>, MalformedBody) : p \in {"/sync/challenge", "/x"}}
    \cup {Request("GET", p, a, k, <<>>, MalformedBody) :
            p \in {"/sync/inventory", "/sync/x"}, a \in AuthHeaders, k \in EncryptKeyHeaders}
    \cup {Request("GET", "/sync/pull", a, k, q, MalformedBody) :
            a \in AuthHeaders, k \in EncryptKeyHeaders, q \in PullQueries}
    \cup {Request("POST", "/sync/push", a, k, <<>>, b) :
            a \in AuthHeaders, k \in EncryptKeyHeaders, b \in PushBodies}
    \cup {Request("POST", "/x", a, k, <<>>, MalformedBody) :
            a \in AuthHeaders, k \in EncryptKeyHeaders}

Mints(r) == r.method = "GET" /\ r.path = "/sync/challenge"

\* do_GET or do_POST on one request, from the first line to the response.
Handle(r) ==
    /\ req = NoRequest
    /\ Mints(r) => nextChallenge <= MaxChallenges
    /\ LET d == AuthServer
           out == handle(d, r, active_challenges[d], gset[d], now, nextChallenge)
           accepted == Authenticates(r)
                       /\ verify_auth(active_challenges[d], now, Identity(d).user_id,
                                      r.auth, r.encryptKey)
       IN /\ active_challenges' = [active_challenges EXCEPT ![d] = out.table]
          /\ gset' = [gset EXCEPT ![d] = out.gset]
          /\ resp' = [status |-> out.status, body |-> out.body]
          /\ nextChallenge' = IF Mints(r) THEN nextChallenge + 1 ELSE nextChallenge
          /\ acceptCount' =
                IF accepted
                THEN [c \in DOMAIN acceptCount \cup {r.auth.challenge} |->
                        IF c = r.auth.challenge THEN Count(c) + 1 ELSE acceptCount[c]]
                ELSE acceptCount
          /\ seen' =
                IF AuthDecodes(r.auth)
                THEN [age |-> IF r.auth.challenge \in DOMAIN active_challenges[d]
                              THEN now - active_challenges[d][r.auth.challenge] ELSE -1,
                      accepted |-> Count(r.auth.challenge)]
                ELSE NothingSeen
    /\ req' = r
    /\ UNCHANGED <<now, projVars, discVars, syncVars, concVars, setVars>>

\* The handler has returned and the server waits for the next connection.
Finish ==
    /\ req # NoRequest
    /\ req' = NoRequest
    /\ resp' = NoResponse
    /\ seen' = NothingSeen
    /\ UNCHANGED <<gset, projVars, discVars, syncVars, concVars, setVars, now, active_challenges,
                   nextChallenge, acceptCount>>

\* Time passes between requests.
TickAuth(dt) ==
    /\ req = NoRequest
    /\ now + dt <= MaxTime
    /\ now' = now + dt
    /\ UNCHANGED <<gset, projVars, discVars, syncVars, concVars, setVars, active_challenges,
                   nextChallenge, req, resp, acceptCount, seen>>

NextAuth ==
    \/ \E r \in Requests : Handle(r)
    \/ Finish
    \/ \E dt \in TickSteps : TickAuth(dt)

SpecAuth == Init /\ [][NextAuth]_vars

----------------------------------------------------------------------------
(* Discovery on device A: main starts and stops it, _broadcast_loop and    *)
(* _listen_loop run as two threads over the same peers dict, and the       *)
(* network delivers any datagram.                                          *)

\* How many times the clock advances in the discovery specification.
MaxDiscTicks == 4
DiscTickSteps == {BROADCAST_INTERVAL}

discOthers == <<gset, projVars, authVars, syncVars, concVars, setVars>>

\* PeerDiscovery.start
Start ==
    /\ bpc = "unstarted"
    /\ running' = TRUE
    /\ sockOpen' = TRUE
    /\ bpc' = "while"
    /\ lpc' = "while"
    /\ UNCHANGED <<peers, bscan, bstale, sentAt, wakeAt, lmsg, lwasNew, discovered, lost>>
    /\ UNCHANGED discOthers

\* PeerDiscovery.stop
Stop ==
    /\ running
    /\ running' = FALSE
    /\ sockOpen' = FALSE
    /\ UNCHANGED <<peers, bpc, bscan, bstale, sentAt, wakeAt, lpc, lmsg, lwasNew,
                   discovered, lost>>
    /\ UNCHANGED discOthers

\* _broadcast_loop: while self.running
BroadcastWhile ==
    /\ bpc = "while"
    /\ bpc' = IF running THEN "send" ELSE "done"
    /\ UNCHANGED <<peers, running, sockOpen, bscan, bstale, sentAt, wakeAt, lpc, lmsg,
                   lwasNew, discovered, lost>>
    /\ UNCHANGED discOthers

\* _broadcast_loop: sign and sendto.  sendto raises on a closed socket and
\* whenever the network refuses the datagram; the except clause then leads
\* to the sleep.  After a send, _cleanup_stale_peers starts its scan.
BroadcastSend(delivered) ==
    /\ bpc = "send"
    /\ delivered => sockOpen
    /\ sentAt' = now
    /\ IF delivered
       THEN /\ bpc' = "scan"
            /\ bscan' = peers
            /\ wakeAt' = wakeAt
       ELSE /\ bpc' = "sleep"
            /\ bscan' = bscan
            /\ wakeAt' = now + BROADCAST_INTERVAL
    /\ UNCHANGED <<peers, running, sockOpen, bstale, lpc, lmsg, lwasNew, discovered, lost>>
    /\ UNCHANGED discOthers

\* _cleanup_stale_peers: the list comprehension over self.peers.items()
\* ends.  A key inserted since it began makes the dict iterator raise
\* RuntimeError, which _broadcast_loop catches.
CleanupScan ==
    /\ bpc = "scan"
    /\ IF DOMAIN bscan # {} /\ DOMAIN peers # DOMAIN bscan
       THEN /\ bpc' = "sleep"
            /\ bstale' = {}
            /\ wakeAt' = now + BROADCAST_INTERVAL
       ELSE /\ \E stale \in StaleChoices(bscan, peers, sentAt) :
                 /\ bstale' = stale
                 /\ bpc' = IF stale = {} THEN "sleep" ELSE "pop"
                 /\ wakeAt' = IF stale = {} THEN now + BROADCAST_INTERVAL ELSE wakeAt
    /\ bscan' = <<>>
    /\ UNCHANGED <<peers, running, sockOpen, sentAt, lpc, lmsg, lwasNew, discovered, lost>>
    /\ UNCHANGED discOthers

\* _cleanup_stale_peers: self.peers.pop(device_id) and the "Lost peer" line.
CleanupPop(d) ==
    /\ bpc = "pop"
    /\ d \in bstale
    /\ peers' = [x \in DOMAIN peers \ {d} |-> peers[x]]
    /\ lost' = [lost EXCEPT ![d] = @ + 1]
    /\ bstale' = bstale \ {d}
    /\ bpc' = IF bstale' = {} THEN "sleep" ELSE "pop"
    /\ wakeAt' = IF bstale' = {} THEN now + BROADCAST_INTERVAL ELSE wakeAt
    /\ UNCHANGED <<running, sockOpen, bscan, sentAt, lpc, lmsg, lwasNew, discovered>>
    /\ UNCHANGED discOthers

\* _broadcast_loop: time.sleep(BROADCAST_INTERVAL) returns
BroadcastWake ==
    /\ bpc = "sleep"
    /\ now >= wakeAt
    /\ bpc' = "while"
    /\ UNCHANGED <<peers, running, sockOpen, bscan, bstale, sentAt, wakeAt, lpc, lmsg,
                   lwasNew, discovered, lost>>
    /\ UNCHANGED discOthers

\* _listen_loop: while self.running
ListenWhile ==
    /\ lpc = "while"
    /\ lpc' = IF running THEN "recv" ELSE "done"
    /\ UNCHANGED <<peers, running, sockOpen, bpc, bscan, bstale, sentAt, wakeAt, lmsg,
                   lwasNew, discovered, lost>>
    /\ UNCHANGED discOthers

\* _listen_loop: recvfrom times out, or raises on the closed socket
ListenNothing ==
    /\ lpc = "recv"
    /\ lpc' = "while"
    /\ UNCHANGED <<peers, running, sockOpen, bpc, bscan, bstale, sentAt, wakeAt, lmsg,
                   lwasNew, discovered, lost>>
    /\ UNCHANGED discOthers

\* _listen_loop: recvfrom returns a datagram; it is parsed and checked, and
\* was_new is computed for one that passes.
ListenRecv(message) ==
    /\ lpc = "recv"
    /\ sockOpen
    /\ lmsg' = message
    /\ IF listen_accepts(LocalDeviceId, Identity("A").user_id, message)
       THEN /\ lwasNew' = (message.payload.deviceId \notin DOMAIN peers)
            /\ lpc' = "insert"
       ELSE /\ lwasNew' = lwasNew
            /\ lpc' = "while"
    /\ UNCHANGED <<peers, running, sockOpen, bpc, bscan, bstale, sentAt, wakeAt,
                   discovered, lost>>
    /\ UNCHANGED discOthers

\* _listen_loop: self.peers[device_id] = {...}, and the "Discovered peer"
\* line if was_new
ListenInsert ==
    /\ lpc = "insert"
    /\ LET d == lmsg.payload.deviceId IN
       /\ peers' = [x \in DOMAIN peers \cup {d} |->
                      IF x = d THEN PeerRecord(lmsg.payload, now) ELSE peers[x]]
       /\ discovered' = IF lwasNew THEN [discovered EXCEPT ![d] = @ + 1] ELSE discovered
    /\ lpc' = "while"
    /\ UNCHANGED <<running, sockOpen, bpc, bscan, bstale, sentAt, wakeAt, lmsg, lwasNew, lost>>
    /\ UNCHANGED discOthers

TickDisc(dt) ==
    /\ now + dt <= MaxDiscTicks * BROADCAST_INTERVAL
    /\ now' = now + dt
    /\ UNCHANGED <<gset, projVars, discVars, syncVars, concVars, setVars, active_challenges,
                   nextChallenge, req, resp, acceptCount, seen>>

NextDisc ==
    \/ Start
    \/ Stop
    \/ BroadcastWhile
    \/ \E delivered \in BOOLEAN : BroadcastSend(delivered)
    \/ CleanupScan
    \/ \E d \in RemoteDeviceIds : CleanupPop(d)
    \/ BroadcastWake
    \/ ListenWhile
    \/ ListenNothing
    \/ \E message \in Datagrams : ListenRecv(message)
    \/ ListenInsert
    \/ \E dt \in DiscTickSteps : TickDisc(dt)

SpecDisc == Init /\ [][NextDisc]_vars

\* The two threads are scheduled again and again and the clock goes on, up
\* to the bound of the model's clock.
DiscFairness ==
    /\ WF_vars(BroadcastWhile)
    /\ WF_vars(\E delivered \in BOOLEAN : BroadcastSend(delivered))
    /\ WF_vars(CleanupScan)
    /\ WF_vars(\E d \in RemoteDeviceIds : CleanupPop(d))
    /\ WF_vars(BroadcastWake)
    /\ WF_vars(ListenWhile)
    /\ WF_vars(ListenNothing \/ \E message \in Datagrams : ListenRecv(message))
    /\ WF_vars(ListenInsert)
    /\ WF_vars(\E dt \in DiscTickSteps : TickDisc(dt))

SpecDiscLive == SpecDisc /\ DiscFairness

----------------------------------------------------------------------------
(* Sync between the devices of one user: each device's main thread creates *)
(* events and runs sync_with_peer against another device, whose server     *)
(* handles the requests; a request or its response can be lost (urlopen    *)
(* raises), and every failure makes sync_with_peer return False.           *)

MaxSyncEvents == 3
MaxSyncRuns == 3
MaxLost == 1

\* Who runs sync_with_peer against whom: the ring A -> B -> C -> A.
SyncPairs == {<<"A", "B">>, <<"B", "C">>, <<"C", "A">>}

\* Event 1 is created on A, 2 on B, 3 on C, 4 on A, ...
CreatorOf(i) == CASE i % 3 = 1 -> "A" [] i % 3 = 2 -> "B" [] OTHER -> "C"

syncOthers == <<projVars, discVars, concVars, setVars, now, req, resp, acceptCount, seen>>

\* What urlopen can do: return the response, raise before the request
\* reached the server, raise after the server handled it.
Outcomes == {"ok", "request_lost", "response_lost"}

\* The network takes an outcome, and counts what it loses.
Network(outcome) ==
    /\ outcome # "ok" => lostCount < MaxLost
    /\ lostCount' = IF outcome = "ok" THEN lostCount ELSE lostCount + 1

Active(r) == {x \in Devices : r[x].pc # "idle"}

\* The runs other than self's that have one of the changed G-Sets at an end.
Disturb(r, self, changed) ==
    [x \in Devices |->
        IF x # self /\ r[x].pc # "idle" /\ {x, r[x].peer} \cap changed # {}
        THEN [r[x] EXCEPT !.disturbed = TRUE] ELSE r[x]]

\* A variant in which a failed run reports success.
Failed_reports_success(r) == [r EXCEPT !.pc = "done", !.result = TRUE, !.failedAt = r.pc]

\* The except branch of sync_with_peer: the run ends and returns False.
Failed(r) == [r EXCEPT !.pc = "done", !.result = FALSE, !.failedAt = r.pc]

\* main: create_event and gset.add.
CreateEvent(d, i) ==
    /\ run[d].pc = "idle"
    /\ i \in 1..MaxSyncEvents
    /\ d = CreatorOf(i)
    /\ i \notin DOMAIN created
    /\ gset' = [gset EXCEPT ![d] = add(gset[d], create_event(i))]
    /\ created' = [j \in DOMAIN created \cup {i} |-> IF j = i THEN d ELSE created[j]]
    /\ run' = Disturb(run, "none", {d})
    /\ lateCreate' = (lateCreate \/ Active(run) # {} \/ syncLog # <<>>)
    /\ UNCHANGED <<presented, lostCount, syncLog, active_challenges, nextChallenge, syncOthers>>

\* main: sync_with_peer(gset, identity, peer) is called; one sync command
\* runs at a time.
StartSync(a, b) ==
    /\ run[a].pc = "idle"
    /\ <<a, b>> \in SyncPairs
    /\ Active(run) = {}
    /\ Len(syncLog) < MaxSyncRuns
    /\ run' = [run EXCEPT ![a] =
                 [IdleRun EXCEPT !.pc = "inventory_challenge", !.peer = b,
                                 !.startLocal = Range(gset[a]),
                                 !.startPeer = Range(gset[b])]]
    /\ UNCHANGED <<presented, lostCount, gset, created, syncLog, lateCreate, active_challenges,
                   nextChallenge, syncOthers>>

ChallengePcs == {"inventory_challenge", "pull_challenge", "push_challenge"}

AfterChallenge(pc) ==
    CASE pc = "inventory_challenge" -> "inventory"
      [] pc = "pull_challenge" -> "pull"
      [] OTHER -> "push"

\* GET /sync/challenge, before each of the three requests.
GetChallenge(a, outcome) ==
    /\ run[a].pc \in ChallengePcs
    /\ Network(outcome)
    /\ LET b == run[a].peer
           out == handle(b, ChallengeRequest, active_challenges[b], gset[b], now,
                         nextChallenge)
       IN /\ IF outcome = "request_lost"
             THEN UNCHANGED <<active_challenges, nextChallenge>>
             ELSE /\ active_challenges' = [active_challenges EXCEPT ![b] = out.table]
                  /\ nextChallenge' = nextChallenge + 1
          /\ run' = [run EXCEPT ![a] =
                       IF outcome = "ok"
                       THEN [@ EXCEPT !.pc = AfterChallenge(run[a].pc),
                                      !.challenge = out.body.challenge,
                                      !.server_key = out.body.serverEncryptKey]
                       ELSE Failed(@)]
    /\ UNCHANGED <<presented, gset, created, syncLog, lateCreate, syncOthers>>

\* Step 1: the encrypted inventory.
Inventory(a, outcome) ==
    /\ run[a].pc = "inventory"
    /\ Network(outcome)
    /\ presented' = presented \cup {run[a].challenge}
    /\ LET b == run[a].peer
           r == ClientRequest(a, "GET", "/sync/inventory", run[a].challenge, <<>>,
                              MalformedBody)
           out == handle(b, r, active_challenges[b], gset[b], now, nextChallenge)
           shared_key == derive_shared_key(Identity(a).encrypt, run[a].server_key)
       IN /\ active_challenges' = IF outcome = "request_lost" THEN active_challenges
                                  ELSE [active_challenges EXCEPT ![b] = out.table]
          /\ run' = [run EXCEPT ![a] =
                       IF outcome = "ok" /\ ClientReads(a, run[a].server_key, out)
                       THEN [@ EXCEPT !.peer_hashes =
                                          decrypt_message(out.body, shared_key).hashes,
                                      !.pc = "diff"]
                       ELSE Failed(@)]
    /\ UNCHANGED <<gset, created, syncLog, lateCreate, nextChallenge, syncOthers>>

\* local_hashes, we_need and they_need.
Diff(a) ==
    /\ run[a].pc = "diff"
    /\ LET local_hashes == get_hashes(gset[a])
           we_need == run[a].peer_hashes \ local_hashes
           they_need == local_hashes \ run[a].peer_hashes
       IN run' = [run EXCEPT ![a] =
                    [@ EXCEPT !.local_hashes = local_hashes,
                              !.we_need = we_need, !.they_need = they_need,
                              !.result = (AfterDiff(we_need, they_need) = "done"),
                              !.pc = AfterDiff(we_need, they_need)]]
    /\ UNCHANGED <<presented, lostCount, gset, created, syncLog, lateCreate, active_challenges,
                   nextChallenge, syncOthers>>

\* Step 2: the pull request; ','.join(we_need) lists the set in any order.
Pull(a, outcome, hashes) ==
    /\ run[a].pc = "pull"
    /\ Network(outcome)
    /\ presented' = presented \cup {run[a].challenge}
    /\ hashes \in Orders(run[a].we_need)
    /\ LET b == run[a].peer
           r == ClientRequest(a, "GET", "/sync/pull", run[a].challenge, hashes,
                              MalformedBody)
           out == handle(b, r, active_challenges[b], gset[b], now, nextChallenge)
           shared_key == derive_shared_key(Identity(a).encrypt, run[a].server_key)
       IN /\ active_challenges' = IF outcome = "request_lost" THEN active_challenges
                                  ELSE [active_challenges EXCEPT ![b] = out.table]
          /\ run' = [run EXCEPT ![a] =
                       IF outcome = "ok" /\ ClientReads(a, run[a].server_key, out)
                       THEN [@ EXCEPT !.events =
                                          decrypt_message(out.body, shared_key).events,
                                      !.pc = "pull_merge"]
                       ELSE Failed(@)]
    /\ UNCHANGED <<gset, created, syncLog, lateCreate, nextChallenge, syncOthers>>

\* local_gset.merge(data['events'])
PullMerge(a) ==
    /\ run[a].pc = "pull_merge"
    /\ gset' = [gset EXCEPT ![a] = merge(gset[a], run[a].events)]
    /\ run' = [Disturb(run, a, IF gset'[a] # gset[a] THEN {a} ELSE {}) EXCEPT ![a] =
                 [@ EXCEPT !.events = <<>>, !.pulled = Range(run[a].events),
                           !.result = (AfterPull(run[a].they_need) = "done"),
                           !.pc = AfterPull(run[a].they_need)]]
    /\ UNCHANGED <<presented, lostCount, created, syncLog, lateCreate, active_challenges,
                   nextChallenge, syncOthers>>

\* Step 3: local_gset.get_events(they_need), a set listed in any order.
PushRead(a, hashes) ==
    /\ run[a].pc = "push_read"
    /\ hashes \in Orders(run[a].they_need)
    /\ run' = [run EXCEPT ![a] = [@ EXCEPT !.events = get_events(gset[a], hashes),
                                           !.pc = "push_challenge"]]
    /\ UNCHANGED <<presented, lostCount, gset, created, syncLog, lateCreate, active_challenges,
                   nextChallenge, syncOthers>>

\* Step 3c: the push request.
Push(a, outcome) ==
    /\ run[a].pc = "push"
    /\ Network(outcome)
    /\ presented' = presented \cup {run[a].challenge}
    /\ LET b == run[a].peer
           shared_key == derive_shared_key(Identity(a).encrypt, run[a].server_key)
           r == ClientRequest(a, "POST", "/sync/push", run[a].challenge, <<>>,
                              encrypt_message([events |-> run[a].events], shared_key))
           out == handle(b, r, active_challenges[b], gset[b], now, nextChallenge)
       IN /\ active_challenges' = IF outcome = "request_lost" THEN active_challenges
                                  ELSE [active_challenges EXCEPT ![b] = out.table]
          /\ gset' = IF outcome = "request_lost" THEN gset
                     ELSE [gset EXCEPT ![b] = out.gset]
          /\ run' = [Disturb(run, a, IF gset'[b] # gset[b] THEN {b} ELSE {}) EXCEPT ![a] =
                       IF outcome = "ok" /\ out.status = 200
                       THEN [@ EXCEPT !.result = TRUE, !.pc = "done",
                                      !.peerBefore = gset[b], !.peerAfter = gset'[b]]
                       ELSE [Failed(@) EXCEPT !.peerBefore = gset[b],
                                              !.peerAfter = gset'[b]]]
    /\ UNCHANGED <<created, syncLog, lateCreate, nextChallenge, syncOthers>>

\* sync_with_peer returns.
Return(a) ==
    /\ run[a].pc = "done"
    /\ syncLog' = Append(syncLog, [client |-> a, peer |-> run[a].peer,
                                   result |-> run[a].result])
    /\ run' = [run EXCEPT ![a] = IdleRun]
    /\ UNCHANGED <<presented, lostCount, gset, created, lateCreate, active_challenges,
                   nextChallenge, syncOthers>>

NextSync ==
    \/ \E d \in Devices, i \in 1..MaxSyncEvents : CreateEvent(d, i)
    \/ \E a \in Devices, b \in Devices : StartSync(a, b)
    \/ \E a \in Devices, outcome \in Outcomes : GetChallenge(a, outcome)
    \/ \E a \in Devices, outcome \in Outcomes : Inventory(a, outcome)
    \/ \E a \in Devices : Diff(a)
    \/ \E a \in Devices, outcome \in Outcomes :
          \E hashes \in Orders(run[a].we_need) : Pull(a, outcome, hashes)
    \/ \E a \in Devices : PullMerge(a)
    \/ \E a \in Devices : \E hashes \in Orders(run[a].they_need) : PushRead(a, hashes)
    \/ \E a \in Devices, outcome \in Outcomes : Push(a, outcome)
    \/ \E a \in Devices : Return(a)

SpecSync == Init /\ [][NextSync]_vars

----------------------------------------------------------------------------
(* Overlapping syncs.  Every device is a process of its own: while one     *)
(* runs sync_with_peer, its server thread answers the requests of another  *)
(* device's run, and its peer may run sync_with_peer itself.  The network  *)
(* loses nothing here.                                                     *)

MaxOverlapRuns == 2

\* main on device a calls sync_with_peer while other devices' runs go on.
StartOverlapping(a, b) ==
    /\ run[a].pc = "idle"
    /\ <<a, b>> \in SyncPairs
    /\ Len(syncLog) + Cardinality(Active(run)) < MaxOverlapRuns
    /\ run' = [run EXCEPT ![a] =
                 [IdleRun EXCEPT !.pc = "inventory_challenge", !.peer = b,
                                 !.startLocal = Range(gset[a]),
                                 !.startPeer = Range(gset[b])]]
    /\ UNCHANGED <<presented, lostCount, gset, created, syncLog, lateCreate, active_challenges,
                   nextChallenge, syncOthers>>

NextOverlap ==
    \/ \E d \in Devices, i \in 1..MaxSyncEvents : CreateEvent(d, i)
    \/ \E a \in Devices, b \in Devices : StartOverlapping(a, b)
    \/ \E a \in Devices : GetChallenge(a, "ok")
    \/ \E a \in Devices : Inventory(a, "ok")
    \/ \E a \in Devices : Diff(a)
    \/ \E a \in Devices : \E hashes \in Orders(run[a].we_need) : Pull(a, "ok", hashes)
    \/ \E a \in Devices : PullMerge(a)
    \/ \E a \in Devices : \E hashes \in Orders(run[a].they_need) : PushRead(a, hashes)
    \/ \E a \in Devices : Push(a, "ok")
    \/ \E a \in Devices : Return(a)

SpecOverlap == Init /\ [][NextOverlap]_vars

----------------------------------------------------------------------------
(* The GSet of device A under its two threads.  Nothing in GSet takes a    *)
(* lock, so the threads interleave between the reads and writes of         *)
(* self.events: add tests the key and then stores, merge is a loop of      *)
(* adds, get_events tests and reads hash by hash, and get_hashes copies    *)
(* the keys in one step.                                                   *)

MaxConcEvents == 2

ConcDevice == "A"
ConcEvents == {create_event(i) : i \in 1..MaxConcEvents}

\* Lists of distinct events a push or a pull hands to merge.
MergeLists == UNION {Orders(S) : S \in SUBSET ConcEvents \ {{}}}

\* The hashes a pull request or they_need asks get_events for.
HashLists == UNION {Orders(get_hashes_of(S)) : S \in SUBSET ConcEvents \ {{}}}

concOthers == <<projVars, authVars, discVars, syncVars, setVars>>

Other(t) == CHOOSE u \in Threads : u # t

\* A thread enters a GSet method.  The calls of both threads belong together
\* until both threads are outside again.
Call(t, op, arg) ==
    /\ thr[t].pc = "idle"
    /\ \/ op = "add" /\ arg \in {<<e>> : e \in ConcEvents}
       \/ op = "merge" /\ arg \in MergeLists
       \/ op = "get_hashes" /\ arg = <<>>
       \/ op = "get_events" /\ arg \in HashLists
    /\ thr' = [thr EXCEPT ![t] =
                 [IdleThread EXCEPT !.op = op, !.arg = arg, !.todo = arg,
                                    !.pc = IF op \in {"add", "merge"} THEN "test" ELSE op,
                                    !.after = IF thr[Other(t)].pc = "returned"
                                              THEN {Other(t)} ELSE {}]]
    /\ g0' = IF thr[Other(t)].pc = "idle" THEN gset[ConcDevice] ELSE g0
    /\ UNCHANGED <<gset, concOthers>>

\* add: event_hash not in self.events
AddTest(t) ==
    /\ thr[t].pc = "test"
    /\ thr' = [thr EXCEPT ![t] =
                 [@ EXCEPT !.absent =
                               Head(thr[t].todo).hash \notin get_hashes(gset[ConcDevice]),
                           !.pc = "store"]]
    /\ UNCHANGED <<gset, g0, concOthers>>

\* add: the store and the return; merge counts it and goes on with its loop.
AddStore(t) ==
    /\ thr[t].pc = "store"
    /\ gset' = IF thr[t].absent
               THEN [gset EXCEPT ![ConcDevice] = dict_store(@, Head(thr[t].todo))]
               ELSE gset
    /\ LET added == thr[t].added + (IF thr[t].absent THEN 1 ELSE 0)
           rest == Tail(thr[t].todo)
       IN thr' = [thr EXCEPT ![t] =
                    IF thr[t].op = "add"
                    THEN [@ EXCEPT !.todo = rest, !.pc = "returned",
                                   !.result = [value |-> thr[t].absent]]
                    ELSE IF rest # <<>>
                    THEN [@ EXCEPT !.todo = rest, !.added = added, !.pc = "test"]
                    ELSE [@ EXCEPT !.todo = rest, !.added = added, !.pc = "returned",
                                   !.result = [value |-> added]]]
    /\ UNCHANGED <<g0, concOthers>>

\* get_hashes: set(self.events.keys())
GetHashes(t) ==
    /\ thr[t].pc = "get_hashes"
    /\ thr' = [thr EXCEPT ![t] =
                 [@ EXCEPT !.pc = "returned",
                           !.result = [value |-> get_hashes(gset[ConcDevice])]]]
    /\ UNCHANGED <<gset, g0, concOthers>>

\* get_events: one turn of the comprehension.
GetEvents(t) ==
    /\ thr[t].pc = "get_events"
    /\ LET out == thr[t].out \o get_events(gset[ConcDevice], <<Head(thr[t].todo)>>)
           rest == Tail(thr[t].todo)
       IN thr' = [thr EXCEPT ![t] =
                    IF rest # <<>>
                    THEN [@ EXCEPT !.todo = rest, !.out = out]
                    ELSE [@ EXCEPT !.todo = rest, !.out = out, !.pc = "returned",
                                   !.result = [value |-> out]]]
    /\ UNCHANGED <<gset, g0, concOthers>>

\* Both threads are outside the GSet again.
Settle ==
    /\ \A t \in Threads : thr[t].pc \in {"idle", "returned"}
    /\ \E t \in Threads : thr[t].pc = "returned"
    /\ thr' = [t \in Threads |-> IdleThread]
    /\ g0' = gset[ConcDevice]
    /\ UNCHANGED <<gset, concOthers>>

NextConc ==
    \/ \E t \in Threads, e \in ConcEvents : Call(t, "add", <<e>>)
    \/ \E t \in Threads, arg \in MergeLists : Call(t, "merge", arg)
    \/ \E t \in Threads : Call(t, "get_hashes", <<>>)
    \/ \E t \in Threads, arg \in HashLists : Call(t, "get_events", arg)
    \/ \E t \in Threads : AddTest(t)
    \/ \E t \in Threads : AddStore(t)
    \/ \E t \in Threads : GetHashes(t)
    \/ \E t \in Threads : GetEvents(t)
    \/ Settle

SpecConc == Init /\ [][NextConc]_vars

----------------------------------------------------------------------------
(* The GSet of one device as its callers use it: add and merge receive any *)
(* event, also one already stored and one whose hash is already stored     *)
(* with other fields; get_hashes, get_events and the projection read.      *)

MaxSetEvents == 2

SetDevice == "A"
SetEvents == {create_event(i) : i \in 1..MaxSetEvents} \cup {Collider}

\* The lists handed to merge: distinct events in any order.
Batches == UNION {Orders(S) : S \in SUBSET SetEvents \ {{}}}

setOthers == <<projVars, authVars, discVars, syncVars, concVars>>

SetAdd(e) ==
    /\ gset' = [gset EXCEPT ![SetDevice] = add(@, e)]
    /\ last' = CallRecord("add", <<e>>, gset[SetDevice],
                        add_returns(gset[SetDevice], e))
    /\ keyed' = keyed_add(keyed, e)
    /\ UNCHANGED setOthers

SetMerge(batch) ==
    /\ gset' = [gset EXCEPT ![SetDevice] = merge(@, batch)]
    /\ last' = CallRecord("merge", batch, gset[SetDevice],
                        merge_returns(gset[SetDevice], batch))
    /\ keyed' = keyed_merge(keyed, batch)
    /\ UNCHANGED setOthers

SetGetHashes ==
    /\ last' = CallRecord("get_hashes", <<>>, gset[SetDevice],
                        get_hashes(gset[SetDevice]))
    /\ UNCHANGED <<gset, keyed, setOthers>>

SetGetEvents(hashes) ==
    /\ last' = CallRecord("get_events", hashes, gset[SetDevice],
                        get_events(gset[SetDevice], hashes))
    /\ UNCHANGED <<gset, keyed, setOthers>>

\* build_notes_from_events(gset): it reads gset.events.values().
SetProject ==
    /\ last' = CallRecord("build_notes_from_events", <<>>, gset[SetDevice],
                        build_notes_from_events(gset[SetDevice]))
    /\ UNCHANGED <<gset, keyed, setOthers>>

NextSet ==
    \/ \E e \in SetEvents : SetAdd(e)
    \/ \E batch \in Batches : SetMerge(batch)
    \/ SetGetHashes
    \/ \E S \in SUBSET get_hashes_of(SetEvents) : \E hashes \in Orders(S) : SetGetEvents(hashes)
    \/ SetProject

SpecSet == Init /\ [][NextSet]_vars

----------------------------------------------------------------------------
(* Claims *)

Presents(r, c) == AuthDecodes(r.auth) /\ r.auth.challenge = c

OnDataEndpoint(r) ==
    \/ r.method = "GET" /\ r.path \in {"/sync/inventory", "/sync/pull"}
    \/ r.method = "POST" /\ r.path = "/sync/push"

ValidlySigned(r, sign_key) ==
    /\ AuthDecodes(r.auth)
    /\ r.auth.signPublicKey = sign_key
    /\ r.auth.signature = sign_message(sign_key, [challenge |-> r.auth.challenge])

\* A response that carries hashes or events.
CarriesData(rs) ==
    /\ "plaintext" \in DOMAIN rs.body
    /\ DOMAIN rs.body.plaintext \cap {"hashes", "events"} # {}

Handled == req = NoRequest /\ req' # NoRequest

\* C1: a challenge that one request was accepted with is never accepted
\* again: every later request that goes through _verify_auth and presents it
\* (on /sync/inventory, /sync/pull, /sync/push or any other authenticated
\* path, replayed byte for byte or not) is answered 401, so no challenge is
\* accepted more than once.
C1_ReusedChallengeRejected ==
    /\ \A c \in DOMAIN acceptCount : acceptCount[c] <= 1
    /\ (req # NoRequest /\ Authenticates(req) /\ AuthDecodes(req.auth) /\ seen.accepted >= 1)
         => (resp.status = 401 /\ Count(req.auth.challenge) = seen.accepted)

\* A byte-identical replay of an accepted header, while the challenge would
\* still be fresh, was answered 401.
C1_Witness ==
    /\ req # NoRequest /\ OnDataEndpoint(req)
    /\ ValidlySigned(req, Identity(AuthServer).sign)
    /\ req.encryptKey = Identity(AuthServer).encrypt
    /\ seen.accepted = 1
    /\ now <= ChallengeTTL
    /\ resp.status = 401

\* C2 as stated: every request that goes through _verify_auth and presents a
\* challenge older than 30 s is answered 401 and leaves the table without
\* that challenge.
C2_Original ==
    (req # NoRequest /\ Authenticates(req) /\ AuthDecodes(req.auth) /\ seen.age > ChallengeTTL)
      => (resp.status = 401
          /\ req.auth.challenge \notin DOMAIN active_challenges[AuthServer])

\* C2, amended: a request that carries both headers and presents a challenge
\* older than 30 s is answered 401, whatever its signature and signer, and
\* the challenge is gone from the table afterwards; a challenge of age at
\* most 30 s, validly signed by the user's key, is accepted.
C2_ExpiredChallengeEvicted ==
    /\ (req # NoRequest /\ Authenticates(req) /\ AuthDecodes(req.auth)
        /\ req.encryptKey # "None" /\ seen.age > ChallengeTTL)
         => (resp.status = 401
             /\ req.auth.challenge \notin DOMAIN active_challenges[AuthServer])
    /\ (req # NoRequest /\ Authenticates(req) /\ req.encryptKey # "None"
        /\ ValidlySigned(req, Identity(AuthServer).sign)
        /\ seen.age >= 0 /\ seen.age <= ChallengeTTL)
         => (resp.status # 401 /\ Count(req.auth.challenge) = seen.accepted + 1)

\* A validly signed request of the user was answered 401 for a challenge of
\* age 31.
C2_Witness ==
    /\ req # NoRequest /\ OnDataEndpoint(req)
    /\ ValidlySigned(req, Identity(AuthServer).sign)
    /\ req.encryptKey = Identity(AuthServer).encrypt
    /\ seen.age = ChallengeTTL + 1
    /\ resp.status = 401
    /\ req.auth.challenge \notin DOMAIN active_challenges[AuthServer]

\* C10: a step of the handler hands out hashes or events, or changes the
\* G-Set, only on a request with both headers whose challenge is in the
\* table and at most 30 s old, whose signature over the challenge verifies
\* under its signPublicKey, and whose signPublicKey derives the local
\* user_id; a request signed by another identity's key leaves the G-Set as
\* it was and gets no hashes and no events.
C10_NoExchangeWithoutAuth ==
    [][Handled =>
        LET r == req'
            table == active_challenges[AuthServer]
        IN /\ (CarriesData(resp') \/ gset' # gset) =>
                 /\ r.auth # NoHeader /\ r.encryptKey # "None"
                 /\ AuthDecodes(r.auth)
                 /\ r.auth.challenge \in DOMAIN table
                 /\ now - table[r.auth.challenge] <= ChallengeTTL
                 /\ r.auth.signature.signer = r.auth.signPublicKey
                 /\ r.auth.signature.message = [challenge |-> r.auth.challenge]
                 /\ get_user_id_from_public_key(r.auth.signPublicKey)
                      = Identity(AuthServer).user_id
           /\ (AuthDecodes(r.auth)
               /\ get_user_id_from_public_key(r.auth.signPublicKey)
                    # Identity(AuthServer).user_id) =>
                 (gset' = gset /\ ~CarriesData(resp'))]_vars

\* Device X signed a live challenge with its own key and sent its own
\* encryption key to a server that holds events: 401.
C10_Witness ==
    /\ req # NoRequest /\ OnDataEndpoint(req)
    /\ ValidlySigned(req, Identity("X").sign)
    /\ req.encryptKey = Identity("X").encrypt
    /\ seen.age >= 0 /\ seen.age <= ChallengeTTL
    /\ gset[AuthServer] # <<>>
    /\ resp.status = 401

\* C7: two G-Sets that hold the same events, inserted in whatever order,
\* project to the same view, also when events of one subject share a
\* timestamp.
C7_ProjectionOrderIndependent ==
    \A d1, d2 \in ProjDevices :
        get_hashes(gset[d1]) = get_hashes(gset[d2])
          => build_notes_from_events(gset[d1]) = build_notes_from_events(gset[d2])

LatestPair(g, x, y) ==
    /\ x \in Range(g) /\ y \in Range(g)
    /\ x.type \in {"CREATE", "UPDATE"} /\ y.type \in {"CREATE", "UPDATE"}
    /\ x.noteId = y.noteId /\ x.timestamp = y.timestamp /\ x.hash > y.hash
    /\ \A z \in Range(g) \ {x, y} : z.noteId = x.noteId => z.timestamp < x.timestamp

\* C8: when the two latest events of a subject are CREATE/UPDATE events
\* with one timestamp and different hashes, the view has the content of the
\* one with the greater hash, whichever was inserted first.
C8_TieBreakOnHash ==
    \A d \in ProjDevices : \A x, y \in Range(gset[d]) :
        LatestPair(gset[d], x, y) =>
            /\ x.noteId \in DOMAIN build_notes_from_events(gset[d])
            /\ build_notes_from_events(gset[d])[x.noteId].content = x.content

\* C3: every record of the peer directory, and every record about to be
\* stored, carries a signPublicKey that derives the local user_id: no beacon
\* signed by another user's key inserts or refreshes a record.
C3_OnlySameUserPeers ==
    /\ \A d \in DOMAIN peers :
          get_user_id_from_public_key(peers[d].signPublicKey) = Identity("A").user_id
    /\ lpc = "insert" =>
          get_user_id_from_public_key(lmsg.payload.signPublicKey) = Identity("A").user_id

\* _listen_loop has dropped a validly signed beacon of device X, while the
\* directory lists another device.
C3_Witness ==
    /\ lmsg = Beacon("dX", "skX", "skX")
    /\ verify_message(lmsg.payload.signPublicKey, lmsg.payload, lmsg.signature)
    /\ lpc = "while"
    /\ "dB" \in DOMAIN peers
    /\ "dX" \notin DOMAIN peers

\* C4: stale peers are evicted after each broadcast send, also a send that
\* fails: when _broadcast_loop goes to sleep, with the clock still at the
\* reading of its sendto, the directory holds no record older than
\* PEER_TIMEOUT.
C4_StaleEvictedAfterEachSend ==
    (running /\ bpc = "sleep" /\ now = sentAt)
      => \A d \in DOMAIN peers : ~IsStale(now, peers[d].lastSeen)

\* C5: when a sync_with_peer run from a device against a peer has returned
\* success and nothing else changed either G-Set since it began, both G-Sets
\* hold exactly the events the two held when it began.
C5_ConvergenceAfterOneSync ==
    \A a \in Devices :
        (run[a].pc = "done" /\ run[a].result /\ ~run[a].disturbed) =>
            /\ Range(gset[a]) = run[a].startLocal \cup run[a].startPeer
            /\ Range(gset[run[a].peer]) = run[a].startLocal \cup run[a].startPeer

\* A successful undisturbed run that both pulled and pushed.
C5_Witness ==
    \E a \in Devices :
        /\ run[a].pc = "done" /\ run[a].result /\ ~run[a].disturbed
        /\ run[a].startLocal \ run[a].startPeer # {}
        /\ run[a].startPeer \ run[a].startLocal # {}

RingLog ==
    << [client |-> "A", peer |-> "B", result |-> TRUE],
       [client |-> "B", peer |-> "C", result |-> TRUE],
       [client |-> "C", peer |-> "A", result |-> TRUE] >>

\* A, B and C each created one event before any sync, the three for one
\* subject with pairwise distinct timestamps, and then exactly the runs
\* A against B, B against C, C against A took place and returned success.
RingSynced ==
    /\ syncLog = RingLog
    /\ Active(run) = {}
    /\ ~lateCreate
    /\ \A d \in Devices : Cardinality({i \in DOMAIN created : created[i] = d}) = 1
    /\ \A i, j \in DOMAIN created :
          /\ create_event(i).noteId = create_event(j).noteId
          /\ i # j => create_event(i).timestamp # create_event(j).timestamp

\* C6: after the ring of three successful syncs every G-Set holds the three
\* events and every projection maps the subject to the content of the
\* event with the greatest timestamp.
C6_ThreeWayConvergence ==
    RingSynced =>
        \A d \in Devices :
            LET all == {create_event(i) : i \in DOMAIN created}
                top == CHOOSE e \in all : \A f \in all : f.timestamp <= e.timestamp
            IN /\ Range(gset[d]) = all
               /\ top.noteId \in DOMAIN build_notes_from_events(gset[d])
               /\ build_notes_from_events(gset[d])[top.noteId].content = top.content

C6_Witness == RingSynced

\* What a GSet method returns, and the GSet it leaves, when it runs alone.
SeqResult(g, op, arg) ==
    CASE op = "add" -> [value |-> add_returns(g, arg[1])]
      [] op = "merge" -> [value |-> merge_returns(g, arg)]
      [] op = "get_hashes" -> [value |-> get_hashes(g)]
      [] OTHER -> [value |-> get_events(g, arg)]

SeqAfter(g, op, arg) ==
    CASE op = "add" -> add(g, arg[1])
      [] op = "merge" -> merge(g, arg)
      [] OTHER -> g

\* The two calls, run whole one after the other with first in front, give
\* the results the threads got and the set that is there now.
ExplainedBy(first) ==
    LET second == Other(first)
        g1 == SeqAfter(g0, thr[first].op, thr[first].arg)
        g2 == SeqAfter(g1, thr[second].op, thr[second].arg)
    IN /\ second \notin thr[first].after
       /\ thr[first].result = SeqResult(g0, thr[first].op, thr[first].arg)
       /\ thr[second].result = SeqResult(g1, thr[second].op, thr[second].arg)
       /\ Range(gset[ConcDevice]) = Range(g2)

\* C9: when the server thread and the main thread have each completed a
\* call of add, merge, get_hashes or get_events on the shared GSet, their
\* results and the set are those of the two calls run whole in some order
\* that keeps a call that returned before the other began in front.
C9_Linearizable ==
    (\A t \in Threads : thr[t].pc = "returned") => \E first \in Threads : ExplainedBy(first)

\* The server of device A takes up a request that passes _verify_auth: the
\* table loses the presented challenge and nothing else.
ServerConsumesExactlyOne ==
    [][(req = NoRequest /\ req' # NoRequest /\ Authenticates(req')
        /\ verify_auth(active_challenges[AuthServer], now, Identity(AuthServer).user_id,
                       req'.auth, req'.encryptKey))
       => /\ req'.auth.challenge \in DOMAIN active_challenges[AuthServer]
          /\ active_challenges'[AuthServer] =
                Without(active_challenges[AuthServer], {req'.auth.challenge})]_vars

RequestPcs == {"inventory", "pull", "push"}

\* The client on device a sends its inventory, pull or push request.
Sends(a) == run[a].pc \in RequestPcs /\ run'[a].pc # run[a].pc

\* C11: a sync client never sends a challenge it has sent before, each of
\* its requests changes no challenge table but the peer's and there takes
\* away at most the challenge it presents, and a request that reaches the
\* peer and passes _verify_auth takes exactly that challenge away.
C11_OneChallengePerRequest ==
    [][\A a \in Devices : Sends(a) =>
          LET b == run[a].peer
              c == run[a].challenge
              table == active_challenges[b]
          IN /\ c \notin presented
             /\ \A d \in Devices \ {b} : active_challenges'[d] = active_challenges[d]
             /\ active_challenges'[b] \in {table, Without(table, {c})}
             /\ (lostCount' = lostCount
                 /\ verify_auth(table, now, Identity(b).user_id, ClientAuth(a, c),
                                Identity(a).encrypt))
                => (c \in DOMAIN table /\ active_challenges'[b] = Without(table, {c}))]_vars

\* A run that made all three requests and succeeded: three challenges were
\* presented and none is left in the peer's table.
C11_Witness ==
    \E a \in Devices :
        /\ run[a].pc = "done" /\ run[a].result
        /\ run[a].we_need # {} /\ run[a].they_need # {}
        /\ Cardinality(presented) >= 3
        /\ active_challenges[run[a].peer] = <<>>

\* No two different events of S carry one hash.
NoCollision(S) == \A e, f \in S : e.hash = f.hash => e = f

\* C12 as stated: an add of an event that is not in the G-Set returns true
\* and inserts it; an add of an event that is in it returns false and
\* changes nothing.
C12_Original ==
    last.op = "add" =>
        LET e == last.arg[1]
            g == last.before
        IN /\ e \notin Range(g) => (last.result.value /\ e \in Range(gset[SetDevice]))
           /\ e \in Range(g) => (~last.result.value /\ gset[SetDevice] = g)

\* C12, amended: an add of an event whose hash is not in the G-Set returns
\* true and inserts it; an add of an event whose hash is in it (the event
\* itself again, or another event with that hash) returns false and
\* changes nothing.
C12_AddIdempotent ==
    last.op = "add" =>
        LET e == last.arg[1]
            g == last.before
        IN /\ e.hash \notin get_hashes(g) =>
                (last.result.value /\ gset[SetDevice] = Append(g, e))
           /\ e.hash \in get_hashes(g) => (~last.result.value /\ gset[SetDevice] = g)

\* An event was added again to a G-Set that had it.
C12_Witness ==
    /\ last.op = "add"
    /\ last.arg[1] \in Range(last.before)
    /\ ~last.result.value

\* After a merge of batch X into g: merging any batch Y next gives what
\* merging Y first and X next gives, and merging X again changes nothing.
MergeCommutes(Y) ==
    Range(merge(gset[SetDevice], Y)) = Range(merge(merge(last.before, Y), last.arg))

\* C13 as stated: for any batches of any events.
C13_Original ==
    last.op = "merge" =>
        /\ \A Y \in Batches : MergeCommutes(Y)
        /\ merge(gset[SetDevice], last.arg) = gset[SetDevice]

\* C13, amended: for batches that, with the G-Set they are merged into,
\* hold no two different events with one hash, the result is the union in
\* either order; merging a batch again changes nothing.
C13_MergeIsJoin ==
    last.op = "merge" =>
        /\ \A Y \in Batches :
              LET all == Range(last.before) \cup Range(last.arg) \cup Range(Y)
              IN NoCollision(all) =>
                    /\ MergeCommutes(Y)
                    /\ Range(merge(gset[SetDevice], Y)) = all
        /\ merge(gset[SetDevice], last.arg) = gset[SetDevice]

\* A batch of two events was merged into a G-Set that had one of them.
C13_Witness ==
    /\ last.op = "merge"
    /\ Len(last.arg) = 2
    /\ NoCollision(Range(last.before) \cup Range(last.arg))
    /\ Range(last.before) \cap Range(last.arg) # {}
    /\ gset[SetDevice] # last.before

\* The events a call was given whose hash was stored, or arrived earlier in
\* the same batch, with other fields.
RECURSIVE Conflicts(_, _)
Conflicts(g, events) ==
    IF events = <<>> THEN {}
    ELSE (IF /\ Head(events).hash \in get_hashes(g)
             /\ Lookup(g, Head(events).hash) # Head(events)
          THEN {Head(events)} ELSE {})
         \cup Conflicts(add(g, Head(events)), Tail(events))

\* C18: after an add or merge that was given an event whose hash was there
\* with other fields, the event written first is still stored under the
\* hash, the newcomer is not stored, and the call has surfaced a warning;
\* and no G-Set ever holds two events with one hash.
C18_FirstWriteWinsWithWarning ==
    /\ NoCollision(Range(gset[SetDevice]))
    /\ Len(gset[SetDevice]) = Cardinality(get_hashes(gset[SetDevice]))
    /\ (last.op \in {"add", "merge"} /\ Conflicts(last.before, last.arg) # {}) =>
          /\ \A e \in Range(last.before) : e \in Range(gset[SetDevice])
          /\ \A e \in Conflicts(last.before, last.arg) : e \notin Range(gset[SetDevice])
          /\ last.warned

\* The part of C18 the code keeps: first write wins, silently.
FirstWriteWins ==
    /\ NoCollision(Range(gset[SetDevice]))
    /\ Len(gset[SetDevice]) = Cardinality(get_hashes(gset[SetDevice]))
    /\ (last.op \in {"add", "merge"} /\ Conflicts(last.before, last.arg) # {}) =>
          /\ \A e \in Range(last.before) : e \in Range(gset[SetDevice])
          /\ \A e \in Conflicts(last.before, last.arg) : e \notin Range(gset[SetDevice])

\* C14: on every step every hash a G-Set stored is still stored, and under
\* it the same event.
C14_Monotonic ==
    [][\A d \in Devices :
          /\ get_hashes(gset[d]) \subseteq get_hashes(gset'[d])
          /\ \A e \in Range(gset[d]) : e \in Range(gset'[d])
          /\ NoCollision(Range(gset'[d]))]_vars

\* A merge that stored a new event and was also given one whose hash was
\* taken by another event.
C14_Witness ==
    /\ last.op = "merge"
    /\ Conflicts(last.before, last.arg) # {}
    /\ last.before # <<>>
    /\ Len(gset[SetDevice]) > Len(last.before)

\* The run of device a pulled and merged, and then failed in its push phase.
PushFailedAfterPull(a) ==
    /\ run[a].pc = "done"
    /\ run[a].pulled # {}
    /\ run[a].failedAt \in {"push_challenge", "push"}

\* The run of device a has succeeded, and the run before it was a failed
\* one of the same device against the same peer.
SucceededAfterFailure(a) ==
    /\ run[a].pc = "done" /\ run[a].result
    /\ syncLog # <<>>
    /\ syncLog[Len(syncLog)] = [client |-> a, peer |-> run[a].peer, result |-> FALSE]

\* What C15 says of both runs but for the peer's G-Set: the failed run
\* returns False and keeps what it pulled; after the later run the peer
\* holds every event the client held when that run began.
ProgressKept(a) ==
    /\ PushFailedAfterPull(a) =>
          /\ ~run[a].result
          /\ run[a].pulled \subseteq Range(gset[a])
    /\ SucceededAfterFailure(a) =>
          run[a].startLocal \subseteq Range(gset[run[a].peer])

\* C15 as stated: the push request of the failed run left the peer's G-Set
\* as it found it.
C15_Original ==
    \A a \in Devices :
        /\ ProgressKept(a)
        /\ PushFailedAfterPull(a) => run[a].peerAfter = run[a].peerBefore

\* C15, amended: the push request of the failed run left the peer's G-Set
\* as it found it, or with the pushed events merged (the peer handled the
\* request and the client did not get the response).
C15_PartialFailureKeepsProgress ==
    \A a \in Devices :
        /\ ProgressKept(a)
        /\ PushFailedAfterPull(a) =>
              run[a].peerAfter \in {run[a].peerBefore,
                                    merge(run[a].peerBefore, run[a].events)}

\* A run pulled and merged, then sent its push and got no response, and
\* the peer had merged the pushed events.
C15_Witness ==
    \E a \in Devices :
        /\ PushFailedAfterPull(a)
        /\ run[a].failedAt = "push"
        /\ run[a].pulled \subseteq Range(gset[a])
        /\ run[a].peerAfter # run[a].peerBefore

\* After a failed run, the same device has run against the same peer again
\* and succeeded by pushing what the peer still lacked.
C15_RetrySucceeds ==
    \E a \in Devices :
        /\ SucceededAfterFailure(a)
        /\ run[a].they_need # {}
        /\ run[a].startLocal \ run[a].startPeer # {}

\* The request fails a step of _verify_auth, on the table and the clock the
\* handler finds.
FailsAuth(r) ==
    /\ Authenticates(r)
    /\ ~verify_auth(active_challenges[AuthServer], now, Identity(AuthServer).user_id,
                    r.auth, r.encryptKey)

PassesAuth(r) ==
    /\ Authenticates(r)
    /\ verify_auth(active_challenges[AuthServer], now, Identity(AuthServer).user_id,
                   r.auth, r.encryptKey)

\* The body of a push is no JSON, does not decrypt under the key shared with
\* the sender, or decrypts to something that is no list of events.
Unreadable(r) ==
    LET shared_key == derive_shared_key(Identity(AuthServer).encrypt, r.encryptKey) IN
    \/ r.body = MalformedBody
    \/ r.encryptKey \notin EncryptKeys
    \/ ~decrypt_ok(r.body, shared_key)
    \/ LET data == decrypt_message(r.body, shared_key) IN
          \/ data = Garbage
          \/ \E i \in 1..Len(data.events) : data.events[i] = BadItem

UnknownPath(r) ==
    \/ r.method = "GET" /\ r.path \notin {"/sync/challenge", "/sync/inventory", "/sync/pull"}
    \/ r.method = "POST" /\ r.path # "/sync/push"

\* C16: a request that fails a step of authentication is answered 401; an
\* authenticated /sync/push whose body cannot be parsed or decrypted is
\* answered 400 and leaves the G-Set unchanged; a request to an unknown path
\* (that does not fail authentication first) is answered 404; every request
\* is answered with one of 200, 400, 401, 404.
C16_ServerErrorResponses ==
    [][Handled =>
          LET r == req'
              status == resp'.status
          IN /\ status \in {200, 400, 401, 404}
             /\ FailsAuth(r) => status = 401
             /\ (PassesAuth(r) /\ r.method = "POST" /\ r.path = "/sync/push" /\ Unreadable(r))
                   => (status = 400 /\ gset' = gset)
             /\ (UnknownPath(r) /\ ~FailsAuth(r)) => status = 404]_vars

\* What holds of C16: failed authentication is answered 401 and changes no
\* G-Set; 400 answers only an authenticated push that could not be read; a
\* request is answered with one of the four statuses or the handler raises
\* and the connection closes with no response (status 0), which happens only
\* to authenticated requests.
C16_AnsweredOrRaised ==
    [][Handled =>
          LET r == req'
              status == resp'.status
          IN /\ status \in {0, 200, 400, 401, 404}
             /\ FailsAuth(r) => (status = 401 /\ resp'.body = Unauthorized /\ gset' = gset)
             /\ status = 401 => FailsAuth(r)
             /\ status = 0 => PassesAuth(r)
             /\ status = 400 =>
                   (PassesAuth(r) /\ r.method = "POST" /\ r.path = "/sync/push" /\ Unreadable(r))
             /\ (UnknownPath(r) /\ ~Authenticates(r)) => status = 404]_vars

\* The step of _verify_auth at which the request fails, "none" when it passes.
FailureKind(r) ==
    LET table == active_challenges[AuthServer] IN
    IF r.auth = NoHeader \/ r.encryptKey = "None" THEN "missing header"
    ELSE IF ~AuthDecodes(r.auth) THEN "malformed header"
    ELSE IF r.auth.challenge \notin DOMAIN table THEN "unknown challenge"
    ELSE IF now - table[r.auth.challenge] > ChallengeTTL THEN "expired challenge"
    ELSE IF ~verify_message(r.auth.signPublicKey, [challenge |-> r.auth.challenge],
                            r.auth.signature) THEN "invalid signature"
    ELSE IF get_user_id_from_public_key(r.auth.signPublicKey) # Identity(AuthServer).user_id
    THEN "wrong user"
    ELSE "none"

\* What the server would send for request q in the current state.
ResponseTo(q) ==
    LET out == handle(AuthServer, q, active_challenges[AuthServer], gset[AuthServer], now,
                      nextChallenge)
    IN [status |-> out.status, body |-> out.body]

\* Requests to compare a response with: every authentication header, with
\* and without X-Encrypt-Key, on one GET and one POST endpoint.
Probes ==
    {q \in Requests : /\ q.path \in {"/sync/inventory", "/sync/push"}
                      /\ q.encryptKey \in {"None", "ekU"}
                      /\ q.body = MalformedBody}

\* C17: whichever step of authentication a request fails at, the response
\* is 401 with the one body {error: Unauthorized}, and it equals the response
\* to every other request that fails authentication, at any step, by GET or
\* POST, in the same state of the server.
C17_AuthFailuresIndistinguishable ==
    [][(Handled /\ FailsAuth(req')) =>
          /\ resp' = [status |-> 401, body |-> Unauthorized]
          /\ FailureKind(req') # "none"
          /\ \A q \in Probes : FailsAuth(q) => ResponseTo(q) = resp']_vars

\* A request that presented an expired challenge has been answered 401
\* Unauthorized.
C17_Witness ==
    /\ req # NoRequest
    /\ Authenticates(req)
    /\ AuthDecodes(req.auth) /\ req.encryptKey \in EncryptKeys
    /\ seen.age > ChallengeTTL
    /\ resp = [status |-> 401, body |-> Unauthorized]

\* The run of device a has returned True.
Succeeded(r, a) == r[a].pc = "done" /\ r[a].result

\* C19: whatever is added to either G-Set between the phases of a run of A
\* against B (creates on B, the pull of B's own run, the push of another
\* device's run into A), no step removes an event from any G-Set, and when
\* the run returns True, A holds every hash of B's inventory and B holds
\* every hash A held when it computed they_need.
C19_ConcurrentMutationLosesNothing ==
    [][/\ \A d \in Devices : \A e \in Range(gset[d]) : e \in Range(gset'[d])
       /\ \A a \in Devices : Succeeded(run', a) =>
             /\ run'[a].peer_hashes \subseteq get_hashes(gset'[a])
             /\ run'[a].local_hashes \subseteq get_hashes(gset'[run'[a].peer])
             /\ run'[a].startLocal \subseteq Range(gset'[a])
             /\ run'[a].startPeer \subseteq Range(gset'[run'[a].peer])]_vars

\* A run that pulled and pushed has returned True, and both G-Sets were
\* changed under it: its own holds an event that it neither began with nor
\* pulled, and its peer's holds one that it neither began with nor was pushed.
C19_Witness ==
    \E a \in Devices :
        /\ Succeeded(run, a)
        /\ run[a].pulled # {} /\ run[a].they_need # {}
        /\ Range(gset[a]) \ (run[a].startLocal \cup run[a].pulled) # {}
        /\ Range(gset[run[a].peer]) \ (run[a].startPeer \cup Range(run[a].events)) # {}

\* The run of device a repeats a whole run: the run before it was one of a
\* against the same peer that returned True, and nothing was created since
\* the first run of all began.
RepeatsRun(a) ==
    /\ run[a].pc # "idle"
    /\ syncLog # <<>>
    /\ syncLog[Len(syncLog)] = [client |-> a, peer |-> run[a].peer, result |-> TRUE]
    /\ ~lateCreate'

\* The push request of device a sent once more, with a new challenge, to the
\* peer as the first one left it.
PushAgain(a) ==
    LET b == run[a].peer
        shared_key == derive_shared_key(Identity(a).encrypt, run[a].server_key)
        r == ClientRequest(a, "POST", "/sync/push", nextChallenge, <<>>,
                           encrypt_message([events |-> run[a].events], shared_key))
    IN handle(b, r, challenge_table(active_challenges'[b], now, nextChallenge),
              gset'[b], now, nextChallenge + 1)

\* The pull request of device a sent once more, with a new challenge.
PullAgain(a, hashes) ==
    LET b == run[a].peer
        r == ClientRequest(a, "GET", "/sync/pull", nextChallenge, hashes, MalformedBody)
    IN handle(b, r, challenge_table(active_challenges'[b], now, nextChallenge),
              gset'[b], now, nextChallenge + 1)

\* C20: the pull request changes no G-Set, sent again it gets the same
\* events, and merging its events again changes nothing; the push request
\* sent again is answered 200 and leaves the peer's G-Set as the first one
\* left it; a run that repeats a successful run changes no G-Set, computes
\* empty we_need and they_need, and sends neither pull nor push.
C20_SafeToRetry ==
    [][\A a \in Devices :
          /\ (run[a].pc = "pull" /\ run'[a].pc = "pull_merge") =>
                /\ gset' = gset
                /\ \E hashes \in Orders(run[a].we_need) :
                      /\ PullAgain(a, hashes).body = handle(run[a].peer,
                            ClientRequest(a, "GET", "/sync/pull", run[a].challenge, hashes,
                                          MalformedBody),
                            active_challenges[run[a].peer], gset[run[a].peer], now,
                            nextChallenge).body
                      /\ decrypt_message(PullAgain(a, hashes).body,
                            derive_shared_key(Identity(a).encrypt, run[a].server_key)).events
                         = run'[a].events
          /\ (run[a].pc = "pull_merge" /\ run'[a].pc # "pull_merge") =>
                merge(gset'[a], run[a].events) = gset'[a]
          /\ (run[a].pc = "push" /\ gset'[run[a].peer] = merge(gset[run[a].peer], run[a].events)
              /\ active_challenges' # active_challenges) =>
                /\ PushAgain(a).status = 200
                /\ PushAgain(a).gset = gset'[run[a].peer]
          /\ RepeatsRun(a) =>
                /\ gset' = gset
                /\ run'[a].pc \in {"idle", "inventory_challenge", "inventory", "diff", "done"}
                /\ (run'[a].pc = "done" /\ run'[a].failedAt = "none") =>
                      /\ run'[a].result
                      /\ run'[a].we_need = {} /\ run'[a].they_need = {}]_vars

\* A run that repeated a successful run has returned True with nothing to
\* pull or push, between two devices that each hold an event the other
\* created.
C20_Witness ==
    \E a \in Devices :
        /\ Succeeded(run, a)
        /\ syncLog # <<>>
        /\ syncLog[Len(syncLog)] = [client |-> a, peer |-> run[a].peer, result |-> TRUE]
        /\ ~lateCreate
        /\ run[a].we_need = {} /\ run[a].they_need = {} /\ run[a].pulled = {}
        /\ \E i \in DOMAIN created : created[i] = a /\ create_event(i) \in Range(gset[run[a].peer])
        /\ \E i \in DOMAIN created : created[i] = run[a].peer /\ create_event(i) \in Range(gset[a])

HashesOf(events) == {e.hash : e \in events}

PullPcs == {"pull_challenge", "pull", "pull_merge"}
PushPcs == {"push_read", "push_challenge", "push"}

\* C21: we_need and they_need are the two differences of the decrypted
\* inventory and the local hashes read after it; the run goes to the pull
\* iff we_need is not empty and the pull asks for exactly we_need; it goes to
\* the push iff they_need is not empty and the push carries exactly the
\* local events with the hashes of they_need; with both empty the run
\* returns True after the inventory request alone.
C21_DiffDrivesPhases ==
    [][\A a \in Devices :
          LET b == run[a].peer
              r == run[a]
              q == run'[a]
          IN /\ (r.pc = "diff" /\ q.pc # "diff") =>
                   /\ q.local_hashes = get_hashes(gset[a])
                   /\ q.we_need = r.peer_hashes \ q.local_hashes
                   /\ q.they_need = q.local_hashes \ r.peer_hashes
                   /\ q.pc = "pull_challenge" <=> q.we_need # {}
                   /\ q.pc = "push_read" <=> (q.we_need = {} /\ q.they_need # {})
                   /\ (q.pc = "done" /\ q.result) <=> (q.we_need = {} /\ q.they_need = {})
                   /\ (q.pc = "done") => (q.pulled = {} /\ q.peerAfter = <<>> /\ gset' = gset)
             /\ (r.pc = "pull" /\ q.pc = "pull_merge") =>
                   /\ r.we_need # {}
                   /\ \E hashes \in Orders(r.we_need) :
                         q.events = get_events(gset[b], hashes)
                   /\ HashesOf(Range(q.events)) = r.we_need
             /\ (r.pc = "pull_merge" /\ q.pc # "pull_merge") =>
                   /\ gset'[a] = merge(gset[a], r.events)
                   /\ q.pc = "push_read" <=> r.they_need # {}
                   /\ (q.pc = "done" /\ q.result) <=> r.they_need = {}
             /\ (r.pc = "push_read" /\ q.pc = "push_challenge") =>
                   /\ r.they_need # {}
                   /\ HashesOf(Range(q.events)) = r.they_need
                   /\ Len(q.events) = Cardinality(r.they_need)
                   /\ Range(q.events) \subseteq Range(gset[a])
             /\ (r.pc = "push" /\ q.pc = "done" /\ q.result) =>
                   /\ r.they_need # {}
                   /\ gset'[b] = merge(gset[b], r.events)
             /\ q.pc \in PullPcs => q.we_need # {}
             /\ q.pc \in PushPcs => q.they_need # {}]_vars

\* A run with both differences non-empty has pulled exactly we_need, pushed
\* exactly they_need, and returned True.
C21_Witness ==
    \E a \in Devices :
        /\ Succeeded(run, a)
        /\ run[a].we_need # {} /\ run[a].they_need # {}
        /\ HashesOf(run[a].pulled) = run[a].we_need
        /\ HashesOf(Range(run[a].events)) = run[a].they_need
        /\ run[a].they_need \subseteq get_hashes(gset[run[a].peer])

\* The events of g for subject n, in the order the fold applies them.
AppliedFor(g, n) == SelectSeq(SortedByTimestamp(g), LAMBDA e : e.noteId = n)

LastApplied(g, n) == AppliedFor(g, n)[Len(AppliedFor(g, n))]

Ascending(s) == \A i, j \in 1..Len(s) : i < j => s[i].timestamp <= s[j].timestamp

\* C22: the fold applies the events in ascending timestamp order; a subject
\* is in the view iff the last event applied for it is a CREATE or UPDATE,
\* and then with the content and timestamp of that event; a subject whose
\* last applied event is a DELETE is absent, whatever came before.
C22_ProjectionFold ==
    LET g == gset[ViewDevice]
        view == build_notes_from_events(g)
    IN /\ Ascending(SortedByTimestamp(g))
       /\ Range(SortedByTimestamp(g)) = Range(g)
       /\ Len(SortedByTimestamp(g)) = Len(g)
       /\ DOMAIN view \subseteq {e.noteId : e \in Range(g)}
       /\ \A n \in {e.noteId : e \in Range(g)} :
             LET e == LastApplied(g, n) IN
             /\ n \in DOMAIN view <=> e.type \in {"CREATE", "UPDATE"}
             /\ e.type = "DELETE" => n \notin DOMAIN view
             /\ n \in DOMAIN view =>
                   view[n] = [id |-> n, content |-> e.content, timestamp |-> e.timestamp]

\* The listed view of a G-Set that holds a CREATE, a later DELETE and a
\* still later UPDATE of one subject has the subject with the UPDATE's
\* content, and the G-Set has been listed.
C22_Witness ==
    LET g == gset[ViewDevice] IN
    /\ notes[ViewDevice] = build_notes_from_events(g)
    /\ \E c, d, u \in Range(g) :
          /\ c.type = "CREATE" /\ d.type = "DELETE" /\ u.type = "UPDATE"
          /\ c.noteId = d.noteId /\ d.noteId = u.noteId
          /\ c.timestamp < d.timestamp /\ d.timestamp < u.timestamp
          /\ u = LastApplied(g, u.noteId)
          /\ u.noteId \in DOMAIN notes[ViewDevice]
          /\ notes[ViewDevice][u.noteId].content = u.content

\* The listed view of a G-Set whose last applied event of a subject is a
\* DELETE that follows a CREATE lacks the subject.
C22_DeletedAbsent ==
    LET g == gset[ViewDevice] IN
    /\ notes[ViewDevice] = build_notes_from_events(g)
    /\ \E c, d \in Range(g) :
          /\ c.type = "CREATE" /\ d.type = "DELETE" /\ c.noteId = d.noteId
          /\ d = LastApplied(g, d.noteId)
          /\ d.noteId \notin DOMAIN notes[ViewDevice]

\* The table with the entries older than ChallengeTTL dropped first and the
\* new challenge inserted after.
EvictThenInsert(table, t, challenge) ==
    LET kept == Without(table, {c \in DOMAIN table : t - table[c] > ChallengeTTL})
    IN [c \in DOMAIN kept \cup {challenge} |-> IF c = challenge THEN t ELSE kept[c]]

\* C23: when a /sync/challenge request has been handled, the table is the
\* old one with the entries older than 30 s dropped and the new challenge
\* inserted: it holds the challenge of the response, issued now, every
\* earlier entry that is at most 30 s old, and no entry older than that.
C23_ChallengeTableMaintained ==
    [][(Handled /\ Mints(req')) =>
          LET old == active_challenges[AuthServer]
              table == active_challenges'[AuthServer]
              c == resp'.body.challenge
          IN /\ resp'.status = 200
             /\ c \notin DOMAIN old
             /\ c \in DOMAIN table /\ table[c] = now
             /\ \A k \in DOMAIN table : ~(now - table[k] > ChallengeTTL)
             /\ \A k \in DOMAIN old :
                   ~(now - old[k] > ChallengeTTL) => (k \in DOMAIN table /\ table[k] = old[k])
             /\ table = EvictThenInsert(old, now, c)]_vars

\* A /sync/challenge request has been handled more than 30 s after the
\* first challenge was issued and never accepted: the table holds the new
\* challenge alone.
C23_Witness ==
    /\ req # NoRequest /\ Mints(req)
    /\ resp.status = 200 /\ resp.body.challenge = 2
    /\ now > ChallengeTTL
    /\ acceptCount = <<>>
    /\ DOMAIN active_challenges[AuthServer] = {2}
    /\ active_challenges[AuthServer][2] = now

\* C24: a device id enters the peer directory exactly in the steps that
\* emit a discovery notification for it (its first valid beacon, and a valid
\* beacon after its removal); a valid beacon of a device that is in the
\* directory replaces its record, with lastSeen the current time, and emits
\* nothing; a record leaves the directory exactly in the steps that emit a
\* loss notification for it, one per removal.
C24_PeerLifecycle ==
    [][\A d \in RemoteDeviceIds :
          LET was == d \in DOMAIN peers
              is == d \in DOMAIN peers'
          IN /\ (~was /\ is) <=> discovered'[d] = discovered[d] + 1
             /\ discovered'[d] \in {discovered[d], discovered[d] + 1}
             /\ (was /\ ~is) <=> lost'[d] = lost[d] + 1
             /\ lost'[d] \in {lost[d], lost[d] + 1}
             /\ (was /\ is /\ peers'[d] # peers[d]) =>
                   peers'[d] = PeerRecord(lmsg.payload, now)
             /\ (lpc = "insert" /\ lpc' # "insert" /\ lmsg.payload.deviceId = d) =>
                   (is /\ peers'[d] = PeerRecord(lmsg.payload, now))]_vars

\* The record of d was removed after _listen_loop computed was_new = False
\* for a beacon of d and before it stored the record.
RemovedUnderInsert(d) ==
    /\ lpc = "insert" /\ lmsg.payload.deviceId = d
    /\ ~lwasNew /\ d \notin DOMAIN peers

\* What holds of C24: the lifecycle is as C24 says but for an insertion that
\* follows RemovedUnderInsert, which emits no discovery notification.
C24_LifecycleButRace ==
    [][\A d \in RemoteDeviceIds :
          LET was == d \in DOMAIN peers
              is == d \in DOMAIN peers'
          IN /\ (~was /\ is /\ ~RemovedUnderInsert(d)) <=> discovered'[d] = discovered[d] + 1
             /\ discovered'[d] \in {discovered[d], discovered[d] + 1}
             /\ (was /\ ~is) <=> lost'[d] = lost[d] + 1
             /\ lost'[d] \in {lost[d], lost[d] + 1}
             /\ (is /\ peers'[d] # IF was THEN peers[d] ELSE <<>>) =>
                   peers'[d] = PeerRecord(lmsg.payload, now)]_vars

SelfEcho(message) ==
    /\ message \notin {NoDatagram, MalformedDatagram}
    /\ message.payload.deviceId = LocalDeviceId

\* C25: the peer directory never holds a record whose deviceId is the local
\* device_id, and a datagram that carries the local device_id, validly
\* signed by the local user's key or not, is dropped: the listen loop goes
\* back to its while and the directory stays as it is.
C25_SelfEchoDropped ==
    [][/\ \A d \in DOMAIN peers' : d # LocalDeviceId /\ peers'[d].deviceId = d
       /\ lpc' = "insert" => ~SelfEcho(lmsg')
       /\ (lpc = "recv" /\ lmsg' # lmsg /\ SelfEcho(lmsg')) =>
             (lpc' = "while" /\ peers' = peers /\ discovered' = discovered)]_vars

\* The listen loop has received the device's own beacon, signed with the
\* user's key, while another device is in the directory, and is back at its
\* while.
C25_Witness ==
    /\ lmsg = Beacon(LocalDeviceId, Identity("A").sign, Identity("A").sign)
    /\ lpc = "while"
    /\ running
    /\ DOMAIN peers = {"dB"}

\* stop() has returned.
Stopped == bpc # "unstarted" /\ ~running

\* C26, its safety half: once stop() has returned, no record is inserted,
\* refreshed or evicted and no beacon is sent.
C26_NothingAfterStop ==
    [][Stopped => (/\ peers' = peers
                   /\ discovered' = discovered /\ lost' = lost
                   /\ ~(bpc = "send" /\ bpc' = "scan"))]_vars

\* What holds of the safety half: once stop() has returned no beacon is
\* sent, no datagram is received and no cleanup pass begins; the directory
\* changes only by the iteration each loop was in when stop() was called.
C26_OnlyInFlightAfterStop ==
    [][Stopped => (/\ ~(bpc = "send" /\ bpc' = "scan")
                   /\ ~(lpc = "recv" /\ lpc' = "insert")
                   /\ lmsg' = lmsg
                   /\ peers' # peers =>
                         \/ lpc = "insert" /\ lpc' = "while"
                         \/ bpc = "pop")]_vars

\* C26, its liveness half: after stop() both loops exit (the broadcast loop
\* at the latest when its sleep ends, which for a sleep begun at the last
\* reading of the model's clock lies beyond that clock).
C26_LoopsExit ==
    Stopped ~> (/\ lpc = "done"
                /\ \/ bpc = "done"
                   \/ bpc = "sleep" /\ wakeAt > MaxDiscTicks * BROADCAST_INTERVAL)

\* The comprehension of _cleanup_stale_peers raises: the directory got a
\* new key while it was iterated.
ScanRaises == bpc = "scan" /\ DOMAIN bscan # {} /\ DOMAIN peers # DOMAIN bscan

\* C27: every record that is removed is older than PEER_TIMEOUT when it is
\* removed, so a peer whose beacon was accepted within the last
\* PEER_TIMEOUT seconds stays; and a cleanup pass that began reaches its end.
C27_LivePeerNeverEvicted ==
    [][/\ \A d \in DOMAIN peers :
             d \notin DOMAIN peers' => IsStale(now, peers[d].lastSeen)
       /\ ~(ScanRaises /\ bpc' # "scan")]_vars

\* What holds of C27: a record is removed only by a pass whose scan found it
\* older than PEER_TIMEOUT at the pass's reading of the clock, in the record
\* it read then.
C27_EvictedWasStaleAtScan ==
    [][\A d \in DOMAIN peers :
          d \notin DOMAIN peers' => (bpc = "pop" /\ d \in bstale)]_vars

\* The steps at which _verify_auth rejects without having found the
\* challenge expired.
RejectsKeepingTable ==
    {"missing header", "malformed header", "unknown challenge", "invalid signature",
     "wrong user"}

\* C28: a request rejected for a missing or malformed header, an unknown
\* challenge, an invalid signature or another user's key leaves the
\* challenge table as it was; if the challenge it presented is in the table
\* (so unexpired then), a correctly signed request of the same user
\* presenting it would be accepted right after; verification changes the
\* table only by deleting the presented challenge, on success and on expiry.
C28_FailureKeepsChallenge ==
    [][(Handled /\ Authenticates(req')) =>
          LET r == req'
              kind == FailureKind(r)
              old == active_challenges[AuthServer]
              table == active_challenges'[AuthServer]
              me == Identity(AuthServer)
          IN /\ kind = "none" <=> PassesAuth(r)
             /\ kind \in RejectsKeepingTable => table = old
             /\ kind \in {"invalid signature", "wrong user"} =>
                   /\ r.auth.challenge \in DOMAIN table
                   /\ verify_auth(table, now, me.user_id,
                                  AuthHeader(r.auth.challenge, me.sign, me.sign,
                                             r.auth.challenge), me.encrypt)
             /\ table # old =>
                   /\ kind \in {"none", "expired challenge"}
                   /\ table = Without(old, {r.auth.challenge})
             /\ kind \in {"none", "expired challenge"} =>
                   table = Without(old, {r.auth.challenge})]_vars

\* A request that presented a live challenge under a signature that does
\* not verify has been answered 401, and the challenge is still in the table
\* with its time of issue.
C28_Witness ==
    /\ req # NoRequest /\ Authenticates(req)
    /\ AuthDecodes(req.auth) /\ req.encryptKey \in EncryptKeys
    /\ ~verify_message(req.auth.signPublicKey, [challenge |-> req.auth.challenge],
                       req.auth.signature)
    /\ seen.age >= 0 /\ seen.age <= ChallengeTTL
    /\ resp.status = 401
    /\ req.auth.challenge \in DOMAIN active_challenges[AuthServer]
    /\ now - active_challenges[AuthServer][req.auth.challenge] = seen.age

\* The hash lists get_events is asked for: stored and unknown hashes, in
\* any order.
AskedHashes == UNION {Orders(S) : S \in SUBSET get_hashes_of(SetEvents)}

\* C29: every event of GSet.events is stored under the key that is its own
\* hash field; get_hashes() is the set of hash fields of the stored events;
\* get_events(H) returns, for the hashes of H in their order, the stored
\* event with that hash, and nothing for a hash that is not stored.  The
\* dict and the G-Set in insertion order hold the same events and answer
\* alike.
C29_KeyedByOwnHash ==
    LET g == gset[SetDevice]
        stored == {keyed[k] : k \in DOMAIN keyed}
    IN /\ \A k \in DOMAIN keyed : keyed[k].hash = k
       /\ keyed_get_hashes(keyed) = {e.hash : e \in stored}
       /\ stored = Range(g)
       /\ get_hashes(g) = keyed_get_hashes(keyed)
       /\ \A H \in AskedHashes :
             LET out == keyed_get_events(keyed, H) IN
             /\ out = get_events(g, H)
             /\ Range(out) = {e \in stored : e.hash \in Range(H)}
             /\ Len(out) = Cardinality(Range(H) \cap DOMAIN keyed)
             /\ \A i \in 1..Len(out) : out[i].hash \in Range(H) /\ keyed[out[i].hash] = out[i]
       /\ last.op = "get_hashes" => last.result.value = {e.hash : e \in Range(last.before)}
       /\ last.op = "get_events" =>
             Range(last.result.value)
               = {e \in Range(last.before) : e.hash \in Range(last.arg)}

\* get_events was asked for a stored and an unknown hash of a G-Set that was
\* offered two events with one hash, and returned the one stored event.
C29_Witness ==
    /\ last.op = "get_events"
    /\ last.before = gset[SetDevice]
    /\ DOMAIN keyed = {create_event(1).hash}
    /\ keyed[create_event(1).hash] \in {create_event(1), Collider}
    /\ Len(last.arg) = 2
    /\ Len(last.result.value) = 1

====
